---- MODULE Spec2Model ----
(***************************************************************************)
(* Model of the MCTIERS players editor (assets/players.js, kept here as    *)
(* src/unnamed/part_000) and of the read-only viewer (src/players-view.js):*)
(* the two localStorage keys, the editor and viewer tabs with their        *)
(* in-memory players / tierMapping / sortState / editingId, the rendered   *)
(* table, and the three notification channels (BroadcastChannel messages,  *)
(* storage events, same-page custom events).                               *)
(*                                                                         *)
(* JavaScript values are tagged records, strings are TLA+ strings that are *)
(* processed character by character, and JSON.stringify / JSON.parse are   *)
(* modelled by the value they yield (a hole, NaN or Infinity becomes null).*)
(* Numbers in the model are integers, Infinity and NaN.                    *)
(***************************************************************************)
EXTENDS Integers, Sequences, FiniteSets, TLC

(* ------------------------- JavaScript values --------------------------- *)

Num(n) == [t |-> "num", v |-> n]
Str(s) == [t |-> "str", v |-> s]
Bool(b) == [t |-> "bool", v |-> b]
Arr(q) == [t |-> "arr", v |-> q]
Obj(f) == [t |-> "obj", v |-> f]
Null == [t |-> "null"]
Undef == [t |-> "undef"]
NaN == [t |-> "nan"]
Inf == [t |-> "inf"]
Hole == [t |-> "hole"]


\* x.k for an object x (undefined when the property is missing)
Get(x, k) == IF x.t = "obj" /\ k \in DOMAIN x.v THEN x.v[k] ELSE Undef

\* reading a property of null, undefined or an array hole raises a TypeError
Nullish(x) == x.t \in {"null", "undef", "hole"}

\* JavaScript truthiness
Truthy(x) ==
  CASE x.t = "num" -> x.v # 0
    [] x.t = "str" -> x.v # ""
    [] x.t = "bool" -> x.v
    [] x.t \in {"null", "undef", "hole", "nan"} -> FALSE
    [] OTHER -> TRUE

\* a || b
OrElse(a, b) == IF Truthy(a) THEN a ELSE b

\* a ?? b
Coalesce(a, b) == IF a.t \in {"null", "undef", "hole"} THEN b ELSE a

(* ------------------------------ strings -------------------------------- *)

CharAt(s, i) == SubSeq(s, i, i)

\* the characters of s, each with its (first) position in s
PositionIn(s) ==
  [c \in {CharAt(s, i) : i \in 1..Len(s)} |-> CHOOSE i \in 1..Len(s) : CharAt(s, i) = c]

DigitPosition == PositionIn("0123456789")
UpperPosition == PositionIn("ABCDEFGHIJKLMNOPQRSTUVWXYZ")


RECURSIVE TrimLeft(_)
TrimLeft(s) == IF s # "" /\ Head(s) = " " THEN TrimLeft(Tail(s)) ELSE s

RECURSIVE TrimRight(_)
TrimRight(s) ==
  IF s # "" /\ CharAt(s, Len(s)) = " " THEN TrimRight(SubSeq(s, 1, Len(s) - 1)) ELSE s

\* String.prototype.trim
Trim(s) == TrimRight(TrimLeft(s))

LowerChar(c) == IF c \in DOMAIN UpperPosition THEN CharAt("abcdefghijklmnopqrstuvwxyz", UpperPosition[c]) ELSE c

RECURSIVE ToLowerCase(_)
ToLowerCase(s) == IF s = "" THEN "" ELSE LowerChar(Head(s)) \o ToLowerCase(Tail(s))

\* String.prototype.includes
Includes(s, q) == \E i \in 1..(Len(s) - Len(q) + 1) : SubSeq(s, i, i + Len(q) - 1) = q

RECURSIVE DigitsValue(_, _)
DigitsValue(s, acc) ==
  IF s = "" THEN acc ELSE DigitsValue(Tail(s), 10 * acc + (DigitPosition[Head(s)] - 1))

AllDigits(s) == s # "" /\ \A i \in 1..Len(s) : CharAt(s, i) \in DOMAIN DigitPosition

\* Number(s) for a string s: surrounding blanks are ignored, the empty
\* string is 0, an optionally signed run of digits is that integer,
\* "Infinity" is Infinity and everything else is NaN
StringToNumber(s) ==
  LET u == Trim(s) IN
  IF u = "" THEN Num(0)
  ELSE IF AllDigits(u) THEN Num(DigitsValue(u, 0))
  ELSE IF Head(u) = "-" /\ AllDigits(Tail(u)) THEN Num(0 - DigitsValue(Tail(u), 0))
  ELSE IF Head(u) = "+" /\ AllDigits(Tail(u)) THEN Num(DigitsValue(Tail(u), 0))
  ELSE IF u \in {"Infinity", "+Infinity"} THEN Inf
  ELSE NaN

\* Number(x)
ToNumber(x) ==
  CASE x.t \in {"num", "nan", "inf"} -> x
    [] x.t = "str" -> StringToNumber(x.v)
    [] x.t = "null" -> Num(0)
    [] x.t = "arr" -> IF Len(x.v) = 0 THEN Num(0) ELSE NaN
    [] OTHER -> NaN

\* String(x) for the primitive values
ToStr(x) ==
  CASE x.t = "str" -> x.v
    [] x.t = "num" -> ToString(x.v)
    [] x.t = "nan" -> "NaN"
    [] x.t = "inf" -> "Infinity"
    [] x.t = "null" -> "null"
    [] x.t \in {"undef", "hole"} -> "undefined"
    [] x.t = "obj" -> "[object Object]"
    [] OTHER -> ""

(* -------------------------------- JSON --------------------------------- *)

\* the value JSON.parse(JSON.stringify(x)) yields: NaN and Infinity become
\* null, a hole or undefined array element becomes null, an undefined
\* property is dropped
RECURSIVE ToJSON(_)
ToJSON(x) ==
  CASE x.t \in {"nan", "inf", "undef", "hole"} -> Null
    [] x.t = "arr" -> Arr([i \in 1..Len(x.v) |-> ToJSON(x.v[i])])
    [] x.t = "obj" ->
         Obj([k \in {j \in DOMAIN x.v : x.v[j].t # "undef"} |-> ToJSON(x.v[k])])
    [] OTHER -> x

\* values of a storage key: no item, or the item's text (the empty text,
\* a text that is not JSON, or the text of the JSON value val)
Absent == [kind |-> "absent"]
EmptyText == [kind |-> "empty"]
CorruptText == [kind |-> "corrupt"]
JSONText(j) == [kind |-> "json", val |-> j]

\* JSON.stringify(x)
JSONstringify(x) == JSONText(ToJSON(x))

\* JSON.parse(raw) raises a SyntaxError unless raw is JSON text
ParseThrows(raw) == raw.kind # "json"
JSONparse(raw) == raw.val

\* !raw for the result of localStorage.getItem
NoRaw(raw) == raw.kind \in {"absent", "empty"}

(* ----------------------- constants of the program --------------------- *)

STORAGE_KEY == "mctiers_players_v1"
MAPPING_KEY == "mctiers_tier_mapping_v1"
StorageKeys == {STORAGE_KEY, MAPPING_KEY}

TIER_ORDER == <<"LT5", "HT5", "LT4", "HT4", "LT3", "HT3", "LT2", "HT2", "LT1", "HT1">>
CanonicalTiers == {TIER_ORDER[i] : i \in 1..Len(TIER_ORDER)}

mappingDefault ==
  Obj([LT5 |-> Num(10), HT5 |-> Num(20), LT4 |-> Num(30), HT4 |-> Num(40), LT3 |-> Num(50),
       HT3 |-> Num(60), LT2 |-> Num(70), HT2 |-> Num(80), LT1 |-> Num(90), HT1 |-> Num(100)])

\* a player record { rank, name, tier, points }
Player(r, n, t, p) == Obj([rank |-> r, name |-> n, tier |-> t, points |-> p])

initialData ==
  << Player(Num(1), Str("XxPvPProxX"), Str("HT1"), mappingDefault.v["HT1"]),
     Player(Num(2), Str("SharpBlade"), Str("LT2"), mappingDefault.v["LT2"]),
     Player(Num(3), Str("NoobSlayer"), Str("LT5"), mappingDefault.v["LT5"]) >>

(* ---------------------------- localStorage ----------------------------- *)

\* A storage area maps the two keys to their items.  An operation on it
\* yields the new area and the keys of the storage events it fires in the
\* other tabs (an event fires only when the item changes).
Effect(st, evs) == [store |-> st, evs |-> evs]

setItem(st, k, raw) ==
  Effect([st EXCEPT ![k] = raw],
         IF st[k] = raw THEN <<>> ELSE <<[key |-> k, op |-> "setItem"]>>)

removeItem(st, k) ==
  Effect([st EXCEPT ![k] = Absent],
         IF st[k] = Absent THEN <<>> ELSE <<[key |-> k, op |-> "removeItem"]>>)

(* --------------------- storage helpers of the editor ------------------- *)

\* removeItem + setItem of the catch blocks
Reseed_RemoveOnly(st, k, val) == removeItem(st, k)
Reseed(st, k, val) ==
  LET e1 == removeItem(st, k)
      e2 == setItem(e1.store, k, JSONstringify(val))
  IN Effect(e2.store, e1.evs \o e2.evs)

\* loadPlayers() of the editor: the list returned and the effect on storage
loadPlayers_EmptyOnError(st) ==
  LET raw == st[STORAGE_KEY] IN
  IF NoRaw(raw)
  THEN [ret |-> initialData, eff |-> setItem(st, STORAGE_KEY, JSONstringify(Arr(initialData)))]
  ELSE IF ParseThrows(raw) \/ JSONparse(raw).t # "arr"
  THEN [ret |-> <<>>, eff |-> Reseed(st, STORAGE_KEY, Arr(initialData))]
  ELSE [ret |-> JSONparse(raw).v, eff |-> Effect(st, <<>>)]
loadPlayers(st) ==
  LET raw == st[STORAGE_KEY] IN
  IF NoRaw(raw)
  THEN [ret |-> initialData, eff |-> setItem(st, STORAGE_KEY, JSONstringify(Arr(initialData)))]
  ELSE IF ParseThrows(raw) \/ JSONparse(raw).t # "arr"
  THEN [ret |-> initialData, eff |-> Reseed(st, STORAGE_KEY, Arr(initialData))]
  ELSE [ret |-> JSONparse(raw).v, eff |-> Effect(st, <<>>)]

\* own enumerable properties copied by the spread { ...x }
SpreadProps(x) ==
  CASE x.t = "obj" -> x.v
    [] x.t = "arr" -> [k \in {ToString(i - 1) : i \in 1..Len(x.v)} |->
                         x.v[CHOOSE i \in 1..Len(x.v) : ToString(i - 1) = k]]
    [] x.t = "str" -> [k \in {ToString(i - 1) : i \in 1..Len(x.v)} |->
                         Str(CharAt(x.v, CHOOSE i \in 1..Len(x.v) : ToString(i - 1) = k))]
    [] OTHER -> [k \in {} |-> Null]

\* { ...a, ...b }
Spread2_FirstWins(a, b) ==
  LET f == SpreadProps(a)
      g == SpreadProps(b)
  IN Obj([k \in DOMAIN f \cup DOMAIN g |-> IF k \in DOMAIN f THEN f[k] ELSE g[k]])
Spread2(a, b) ==
  LET f == SpreadProps(a)
      g == SpreadProps(b)
  IN Obj([k \in DOMAIN f \cup DOMAIN g |-> IF k \in DOMAIN g THEN g[k] ELSE f[k]])

\* loadMapping() of the editor
loadMapping(st) ==
  LET raw == st[MAPPING_KEY] IN
  IF NoRaw(raw)
  THEN [ret |-> mappingDefault, eff |-> setItem(st, MAPPING_KEY, JSONstringify(mappingDefault))]
  ELSE IF ParseThrows(raw)
  THEN [ret |-> mappingDefault, eff |-> Reseed(st, MAPPING_KEY, mappingDefault)]
  ELSE [ret |-> Spread2(mappingDefault, JSONparse(raw)), eff |-> Effect(st, <<>>)]

(* --------------------- storage helpers of the viewer ------------------- *)

\* loadPlayers() of players-view.js: never writes
viewLoadPlayers(st) ==
  LET raw == st[STORAGE_KEY] IN
  IF NoRaw(raw) THEN <<>>
  ELSE IF ParseThrows(raw) THEN <<>>
  ELSE IF JSONparse(raw).t # "arr" THEN <<>>
  ELSE JSONparse(raw).v

\* loadMapping() of players-view.js: parsed && typeof parsed === 'object'
viewLoadMapping(st) ==
  LET raw == st[MAPPING_KEY] IN
  IF NoRaw(raw) THEN Obj(<<>>)
  ELSE IF ParseThrows(raw) THEN Obj(<<>>)
  ELSE IF JSONparse(raw).t \in {"obj", "arr"} THEN JSONparse(raw)
  ELSE Obj(<<>>)

(* ---------------------------- normalization ---------------------------- *)

\* m[k] for the tier mapping m (an object, or an array in the viewer)
Lookup_Missing(m, k) == Undef
Lookup(m, k) == LET f == SpreadProps(m) IN IF k \in DOMAIN f THEN f[k] ELSE Undef

\* normalizePlayer(item), for an item that is an object (for null or
\* undefined it raises a TypeError)
normalizePlayer_MarksName(item, tierMapping) ==
  LET tierVal == Trim(ToStr(OrElse(Get(item, "tier"),
                        OrElse(Get(item, "Tier"), OrElse(Get(item, "TIER"), Str(""))))))
      p == Get(item, "points")
      provided == ~(p.t \in {"undef", "null"}) /\ p # Str("")
      pointsProvided == IF provided THEN ToNumber(p) ELSE Null
      points == IF pointsProvided.t \in {"null", "nan"}
                THEN Coalesce(Lookup(tierMapping, tierVal), Num(0))
                ELSE ToNumber(pointsProvided)
  IN Player(OrElse(ToNumber(Get(item, "rank")), Num(0)),
            Str(ToStr(OrElse(Get(item, "name"),
                      OrElse(Get(item, "player"), OrElse(Get(item, "username"), Str("Unknown")))))
                \o "*"),
            Str(tierVal),
            OrElse(ToNumber(points), Num(0)))
normalizePlayer(item, tierMapping) ==
  LET tierVal == Trim(ToStr(OrElse(Get(item, "tier"),
                        OrElse(Get(item, "Tier"), OrElse(Get(item, "TIER"), Str("")))))) 
      p == Get(item, "points")
      provided == ~(p.t \in {"undef", "null"}) /\ p # Str("")
      pointsProvided == IF provided THEN ToNumber(p) ELSE Null
      points == IF pointsProvided.t \in {"null", "nan"}
                THEN Coalesce(Lookup(tierMapping, tierVal), Num(0))
                ELSE ToNumber(pointsProvided)
  IN Player(OrElse(ToNumber(Get(item, "rank")), Num(0)),
            Str(ToStr(OrElse(Get(item, "name"),
                      OrElse(Get(item, "player"), OrElse(Get(item, "username"), Str("Unknown")))))),
            Str(tierVal),
            OrElse(ToNumber(points), Num(0)))

(* ------------------------ comparison and sorting ----------------------- *)

\* the characters of the model's strings in code-unit order
CodePosition ==
  PositionIn(" \"&,-0123456789<>ABCDEFGHIJKLMNOPQRSTUVWXYZ_abcdefghijklmnopqrstuvwxyz")

RECURSIVE StrLess(_, _)
StrLess(a, b) ==
  IF b = "" THEN FALSE
  ELSE IF a = "" THEN TRUE
  ELSE IF Head(a) = Head(b) THEN StrLess(Tail(a), Tail(b))
  ELSE CodePosition[Head(a)] < CodePosition[Head(b)]

\* x < y for two numbers
NumLess(x, y) ==
  CASE x.t = "nan" \/ y.t = "nan" -> FALSE
    [] x.t = "inf" -> FALSE
    [] y.t = "inf" -> TRUE
    [] OTHER -> x.v < y.v

\* a < b
LessThan(a, b) ==
  IF a.t = "str" /\ b.t = "str" THEN StrLess(a.v, b.v)
  ELSE NumLess(ToNumber(a), ToNumber(b))

\* a === b
StrictEq(a, b) == a.t # "nan" /\ a = b

\* sign of x - y for two numbers (0 when the difference is NaN)
DiffSign(x, y) ==
  CASE x.t = "nan" \/ y.t = "nan" -> 0
    [] x.t = "inf" /\ y.t = "inf" -> 0
    [] x.t = "inf" -> 1
    [] y.t = "inf" -> 0 - 1
    [] OTHER -> IF x.v < y.v THEN 0 - 1 ELSE IF x.v > y.v THEN 1 ELSE 0

\* the comparators: the table's (field, dir) comparator of
\* applyFiltersAndRender and the rank comparator of the form's submit
Compare_IgnoresDirection(mode, a, b) ==
  IF mode.by = "rankdiff"
  THEN DiffSign(ToNumber(OrElse(Get(a, "rank"), Num(0))), ToNumber(OrElse(Get(b, "rank"), Num(0))))
  ELSE LET dir == 1
           x == Get(a, mode.field)
           y == Get(b, mode.field)
       IN IF LessThan(x, y) THEN (0 - 1) * dir
          ELSE IF LessThan(y, x) THEN 1 * dir
          ELSE 0
Compare(mode, a, b) ==
  IF mode.by = "rankdiff"
  THEN DiffSign(ToNumber(OrElse(Get(a, "rank"), Num(0))), ToNumber(OrElse(Get(b, "rank"), Num(0))))
  ELSE LET dir == IF mode.dir = "asc" THEN 1 ELSE 0 - 1
           x == Get(a, mode.field)
           y == Get(b, mode.field)
       IN IF LessThan(x, y) THEN (0 - 1) * dir
          ELSE IF LessThan(y, x) THEN 1 * dir
          ELSE 0

\* insertion of position e into the sorted positions of arr: a stable sort
RECURSIVE SortInsert(_, _, _, _)
SortInsert(mode, arr, sorted, e) ==
  IF sorted = <<>> THEN <<e>>
  ELSE IF Compare(mode, arr[sorted[Len(sorted)]], arr[e]) > 0
  THEN Append(SortInsert(mode, arr, SubSeq(sorted, 1, Len(sorted) - 1), e), sorted[Len(sorted)])
  ELSE Append(sorted, e)

RECURSIVE StableSort(_, _, _)
StableSort(mode, arr, idxs) ==
  IF idxs = <<>> THEN <<>>
  ELSE SortInsert(mode, arr, StableSort(mode, arr, SubSeq(idxs, 1, Len(idxs) - 1)), idxs[Len(idxs)])

Positions(arr) == [i \in 1..Len(arr) |-> i]
At(arr, idxs) == [i \in 1..Len(idxs) |-> arr[idxs[i]]]

\* Array.prototype.sort as the order it gives the positions of arr: stable,
\* the holes go to the end, and the comparator reads a field of every other
\* element (so it raises on null once there are two elements)
SortedPositions(mode, arr, idxs) ==
  StableSort(mode, arr, SelectSeq(idxs, LAMBDA i : arr[i].t # "hole"))
    \o SelectSeq(idxs, LAMBDA i : arr[i].t = "hole")

ArraySort(mode, arr) == At(arr, SortedPositions(mode, arr, Positions(arr)))
NoHoles(list) == SelectSeq(list, LAMBDA e : e.t # "hole")
SortThrows(list) == Len(NoHoles(list)) >= 2 /\ \E i \in 1..Len(list) : list[i].t = "null"

(* ------------------------------ rendering ------------------------------ *)

RECURSIVE ReplaceChars(_)
ReplaceChars(s) ==
  IF s = "" THEN ""
  ELSE (CASE Head(s) = "&" -> "&amp;"
          [] Head(s) = "<" -> "&lt;"
          [] Head(s) = ">" -> "&gt;"
          [] Head(s) = "\"" -> "&quot;"
          [] OTHER -> Head(s)) \o ReplaceChars(Tail(s))

escapeHtml(x) == IF x.t \in {"null", "undef", "hole"} THEN "" ELSE ReplaceChars(ToStr(x))

StartsWith(s, pre) == Len(s) >= Len(pre) /\ SubSeq(s, 1, Len(pre)) = pre
Drop(s, n) == SubSeq(s, n + 1, Len(s))

\* the text the HTML parser makes of a cell's markup (textContent)
RECURSIVE textContent(_)
textContent(s) ==
  IF s = "" THEN ""
  ELSE IF StartsWith(s, "&amp;") THEN "&" \o textContent(Drop(s, 5))
  ELSE IF StartsWith(s, "&lt;") THEN "<" \o textContent(Drop(s, 4))
  ELSE IF StartsWith(s, "&gt;") THEN ">" \o textContent(Drop(s, 4))
  ELSE IF StartsWith(s, "&quot;") THEN "\"" \o textContent(Drop(s, 6))
  ELSE Head(s) \o textContent(Tail(s))

\* the four cells of the row renderTable makes of p
RowOf(p) == [rank |-> textContent(escapeHtml(Get(p, "rank"))),
             name |-> textContent(escapeHtml(Get(p, "name"))),
             tier |-> textContent(escapeHtml(Get(p, "tier"))),
             points |-> textContent(escapeHtml(Get(p, "points")))]

\* renderTable(list): forEach skips the holes; a null element raises
renderTable(list) == LET shown == NoHoles(list) IN [i \in 1..Len(shown) |-> RowOf(shown[i])]
HasNull(list) == \E i \in 1..Len(list) : list[i].t = "null"

\* the search predicate of applyFiltersAndRender
MatchesSearch(p, q) ==
  \/ Includes(ToLowerCase(ToStr(Get(p, "name"))), q)
  \/ Includes(ToLowerCase(ToStr(Get(p, "tier"))), q)
  \/ Includes(ToStr(Get(p, "points")), q)
  \/ Includes(ToStr(Get(p, "rank")), q)

\* the positions (in players) of the records applyFiltersAndRender hands
\* to renderTable, in display order
VisiblePositions(players, searchText, tier, sortState) ==
  LET q == ToLowerCase(Trim(searchText))
      all == Positions(players)
      l1 == IF q # ""
            THEN SelectSeq(all, LAMBDA i : players[i].t # "hole" /\ MatchesSearch(players[i], q))
            ELSE all
      l2 == IF tier # ""
            THEN SelectSeq(l1, LAMBDA i : /\ players[i].t # "hole"
                                         /\ OrElse(Get(players[i], "tier"), Str("")) = Str(tier))
            ELSE l1
  IN SortedPositions([by |-> "field", field |-> sortState.field, dir |-> sortState.dir],
                     players, l2)

\* applyFiltersAndRender raises on a null element (in a filter, in the
\* comparator or in renderTable)
applyFiltersThrows(players) == HasNull(players)

applyFiltersAndRender(players, searchText, tier, sortState) ==
  renderTable(At(players, VisiblePositions(players, searchText, tier, sortState)))

\* getUniqueTiers raises on a null element and on a tier that is truthy
\* but not a string (no trim method)
getUniqueTiersThrows(players) ==
  \E i \in 1..Len(players) :
     \/ players[i].t = "null"
     \/ Truthy(Get(players[i], "tier")) /\ Get(players[i], "tier").t # "str"

\* the click wiring of renderTable: the row's cells are read back and the
\* first record with these four values is looked up.  findIndex visits
\* holes as undefined, so it raises when it meets a hole or a null before
\* a match.  The result is -1 when nothing matches.
RowMatches(p, row) ==
  /\ StrictEq(Get(p, "name"), Str(row.name))
  /\ StrictEq(Get(p, "tier"), Str(row.tier))
  /\ StrictEq(Get(p, "rank"), StringToNumber(row.rank))
  /\ StrictEq(Get(p, "points"), StringToNumber(row.points))

RECURSIVE HitFrom(_, _, _)
HitFrom(players, row, i) ==
  IF i > Len(players) THEN 0
  ELSE IF Nullish(players[i]) \/ RowMatches(players[i], row) THEN i
  ELSE HitFrom(players, row, i + 1)

\* the first position (from 1) where findIndex stops, 0 when it runs through
FirstHit(players, row) == HitFrom(players, row, 1)

findIndexThrows(players, row) ==
  LET h == FirstHit(players, row) IN h # 0 /\ Nullish(players[h])

\* realIndex, counted from 0 as in the source (-1: not found)
realIndex(players, row) == FirstHit(players, row) - 1

(* ------------------------------- bounds -------------------------------- *)

\* saves (savePlayers / saveMapping calls) made in one behaviour
MaxSaves == 2
\* longest player list the add form is used on
MaxPlayers == 3

(* ------------------------------ the state ------------------------------ *)

Editors == {"e1", "e2"}
Viewers == {"v1"}
Tabs == Editors \cup Viewers

VARIABLES
  store,        \* localStorage: storage key -> item
  bcAvail,      \* 'BroadcastChannel' in window
  card,         \* the home page: its server card and where updateServerCard is
  open,         \* tab -> its page has been loaded
  players,      \* tab -> the players array
  tierMapping,  \* tab -> the tierMapping object
  sortState,    \* tab -> [field, dir]
  editingId,    \* editor -> null or an index
  selected,     \* history: editor -> null or the record Edit was clicked on
  searchInput,  \* tab -> value of #searchInput
  tierFilter,   \* tab -> value of #tierFilter
  rows,         \* tab -> the rows of #playersBody as last rendered
  cont,         \* tab -> what is left of the handler that is running
  inbox,        \* tab -> number of notifications not yet handled
  saveSeq,      \* history: number of saves begun
  landed,       \* history: storage key -> the saves whose setItem was done
  last          \* history: the last step, with the notifications it emitted

vars == <<store, bcAvail, card, open, players, tierMapping, sortState, editingId, selected, searchInput,
          tierFilter, rows, cont, inbox, saveSeq, landed, last>>

Idle == [pc |-> "idle"]

\* The listeners of a page all run the same reload, whatever the channel,
\* the message or the key of the event, so a tab's pending notifications are
\* kept as their number.
InitialSort == [field |-> "rank", dir |-> "asc"]

TypeOfKey(k) == IF k = STORAGE_KEY THEN "players-updated" ELSE "mapping-updated"
EventOfKey(k) == IF k = STORAGE_KEY THEN "mctiers_players_updated" ELSE "mctiers_mapping_updated"
KeyOfNotification(what) ==
  IF what \in {"players-updated", "mctiers_players_updated"} THEN STORAGE_KEY ELSE MAPPING_KEY

(* ------------------- the server card of the home page ------------------ *)

serverToCheck == "lightvanilla.qzz.io"

\* stands for the dash (U+2014) the card shows for a missing value
EmDash == "-"

\* what fetch() and res.json() yield: the request fails, the response is
\* not OK, or the response is OK and its body is the storage-item-like text
\* CorruptText (no JSON) or JSONText(j)
FetchRejected == [kind |-> "rejected"]
NotOk == [kind |-> "notOk"]

\* fetchServerStatus(host): the parsed body, or null after any error
fetchServerStatus(res) ==
  IF res.kind \in {"rejected", "notOk"} THEN Null
  ELSE IF ParseThrows(res) THEN Null
  ELSE JSONparse(res)

\* q.join(" ") for an array of strings
RECURSIVE Join(_)
Join(q) ==
  IF q = <<>> THEN ""
  ELSE IF Len(q) = 1 THEN ToStr(q[1])
  ELSE ToStr(q[1]) \o " " \o Join(Tail(q))

\* x && x.length for an array x
HasLength(x) == x.t = "arr" /\ Len(x.v) > 0

\* the motd line of updateServerCard, before the fallback to the dash
motdOf(data) ==
  LET m == Get(data, "motd")
      clean == Get(m, "clean")
      raw == Get(m, "raw")
  IN IF Truthy(m) /\ HasLength(clean) THEN Trim(Join(clean.v))
     ELSE IF Truthy(m) /\ HasLength(raw) THEN Trim(Join(raw.v))
     ELSE ""

\* the players line of updateServerCard
playersOf(data) ==
  LET p == Get(data, "players")
  IN IF Truthy(p) /\ Get(p, "online").t = "num"
     THEN ToStr(Get(p, "online")) \o "/" \o ToStr(OrElse(Get(p, "max"), Str("?")))
     ELSE EmDash

connectText == "Connect: " \o serverToCheck
connectHref == "minecraft:///" \o serverToCheck

\* the home page before it is loaded
NoCard ==
  [pc |-> "closed", hasLink |-> FALSE, year |-> FALSE, data |-> Undef,
   name |-> "", motd |-> "", online |-> "", players |-> "", linkText |-> "", linkHref |-> ""]

\* updateServerCard() from the point where fetchServerStatus has returned
\* data.  In the branch for a status object the function reads `host`,
\* which is a parameter of fetchServerStatus and of hostDisplayName and is
\* declared nowhere in updateServerCard or at top level: the read raises a
\* ReferenceError and the promise of updateServerCard is rejected
\* (pc = "threw") with the fields set so far.
updateServerCard(c, data) ==
  IF ~Truthy(data)
  THEN [c EXCEPT !.pc = "done", !.data = data,
                 !.name = "Unable to fetch status", !.motd = "",
                 !.online = "Unknown", !.players = EmDash,
                 !.linkText = IF c.hasLink THEN connectText ELSE @,
                 !.linkHref = IF c.hasLink THEN connectHref ELSE @]
  ELSE LET filled == [c EXCEPT !.data = data,
                               !.online = IF Get(data, "online") = Bool(TRUE)
                                          THEN "Online" ELSE "Offline",
                               !.players = playersOf(data),
                               !.motd = IF motdOf(data) = "" THEN EmDash ELSE motdOf(data)]
       IN IF ~Truthy(Get(data, "hostname"))
          THEN [filled EXCEPT !.pc = "threw"]
          ELSE IF c.hasLink
          THEN [filled EXCEPT !.pc = "threw", !.name = ToStr(Get(data, "hostname"))]
          ELSE [filled EXCEPT !.pc = "done", !.name = ToStr(Get(data, "hostname"))]

EmptyStore == [k \in StorageKeys |-> Absent]

InitWith(st) ==
  /\ store = st
  /\ bcAvail \in BOOLEAN
  /\ card = NoCard
  /\ open = [t \in Tabs |-> FALSE]
  /\ players = [t \in Tabs |-> <<>>]
  /\ tierMapping = [t \in Tabs |-> Obj(<<>>)]
  /\ sortState = [t \in Tabs |-> InitialSort]
  /\ editingId = [t \in Tabs |-> Null]
  /\ selected = [t \in Tabs |-> Null]
  /\ searchInput = [t \in Tabs |-> ""]
  /\ tierFilter = [t \in Tabs |-> ""]
  /\ rows = [t \in Tabs |-> <<>>]
  /\ cont = [t \in Tabs |-> Idle]
  /\ inbox = [t \in Tabs |-> 0]
  /\ saveSeq = 0
  /\ landed = [k \in StorageKeys |-> {}]
  /\ last = [op |-> "init", tab |-> "", emitted |-> {}]

Init == InitWith(EmptyStore)

\* history of a step that emits nothing
Step(opname, t) == [op |-> opname, tab |-> t, emitted |-> {}]

\* history: the storage events of an effect, made by save number id (0: by
\* a load)
StorageEvents(eff, id) ==
  { [chan |-> "storage", what |-> eff.evs[i].key, op |-> eff.evs[i].op, id |-> id] :
      i \in 1..Len(eff.evs) }

(* -------------------------- notification fan-out ----------------------- *)

\* the storage events of effect eff, made by tab t, reach the other open tabs
Deliver(inb, t, eff) ==
  [u \in Tabs |->
     IF open[u] /\ u # t
     THEN inb[u] + Len(eff.evs)
     ELSE inb[u]]

\* bc.postMessage({ type }) of editor t reaches every other channel object
\* of that name that has a handler: the viewer's bc in the other tabs and
\* the editor's second object, listener, in every editor tab, t included
Post(inb, t, type) ==
  IF bcAvail
  THEN [u \in Tabs |-> IF open[u] THEN inb[u] + 1 ELSE inb[u]]
  ELSE inb

\* what populateTierFilter and applyFiltersAndRender leave in the page: the
\* select is rebuilt (its value falls back to "All tiers") and the table is
\* re-rendered unless one of the two raises
Refresh(t, pl) ==
  [tierFilter |-> "",
   rows |-> IF getUniqueTiersThrows(pl) \/ applyFiltersThrows(pl) THEN rows[t]
            ELSE applyFiltersAndRender(pl, searchInput[t], "", sortState[t])]

\* applyFiltersAndRender alone
Rerender(t, pl, q, tier, srt) ==
  IF applyFiltersThrows(pl) THEN rows[t] ELSE applyFiltersAndRender(pl, q, tier, srt)

(* ------------------------------ page load ------------------------------ *)

\* the editor's script (lines 38-39) and its DOMContentLoaded handler
OpenEditor(t) ==
  /\ t \in Editors /\ ~open[t]
  /\ LET p1 == loadPlayers(store)
         m1 == loadMapping(p1.eff.store)
         p2 == loadPlayers(m1.eff.store)
         m2 == loadMapping(p2.eff.store)
         all == Effect(m2.eff.store, p1.eff.evs \o m1.eff.evs \o p2.eff.evs \o m2.eff.evs)
         r == Refresh(t, p2.ret)
     IN /\ store' = all.store
        /\ inbox' = Deliver(inbox, t, all)
        /\ last' = [op |-> "open", tab |-> t, emitted |-> StorageEvents(all, 0)]
        /\ players' = [players EXCEPT ![t] = p2.ret]
        /\ tierMapping' = [tierMapping EXCEPT ![t] = m2.ret]
        /\ tierFilter' = [tierFilter EXCEPT ![t] = r.tierFilter]
        /\ rows' = [rows EXCEPT ![t] = r.rows]
  /\ open' = [open EXCEPT ![t] = TRUE]
  /\ UNCHANGED <<bcAvail, card, sortState, editingId, selected, searchInput, cont, saveSeq, landed>>

\* the viewer's DOMContentLoaded handler
OpenViewer(t) ==
  /\ t \in Viewers /\ ~open[t]
  /\ LET pl == viewLoadPlayers(store)
         r == Refresh(t, pl)
     IN /\ players' = [players EXCEPT ![t] = pl]
        /\ tierMapping' = [tierMapping EXCEPT ![t] = viewLoadMapping(store)]
        /\ tierFilter' = [tierFilter EXCEPT ![t] = r.tierFilter]
        /\ rows' = [rows EXCEPT ![t] = r.rows]
  /\ open' = [open EXCEPT ![t] = TRUE]
  /\ last' = Step("open", t)
  /\ UNCHANGED <<store, bcAvail, card, sortState, editingId, selected, searchInput, cont, inbox, saveSeq, landed>>

(* ------------------------ handling a notification ---------------------- *)

Ready(t) == open[t] /\ cont[t] = Idle

\* history: a reload that directly follows a reload of the same tab
ReloadOp(t) ==
  IF last.tab = t /\ last.op \in {"reload", "reloadAgain"} THEN "reloadAgain" ELSE "reload"

\* listener.onmessage and the storage listener of the editor
EditorReload_Announces(t) ==
  /\ t \in Editors /\ Ready(t) /\ inbox[t] > 0
  /\ LET p == loadPlayers(store)
         mp == loadMapping(p.eff.store)
         all == Effect(mp.eff.store, p.eff.evs \o mp.eff.evs)
         r == Refresh(t, p.ret)
     IN /\ store' = all.store
        /\ inbox' = Post(Deliver([inbox EXCEPT ![t] = @ - 1], t, all), t, TypeOfKey(STORAGE_KEY))
        /\ last' = [op |-> ReloadOp(t), tab |-> t, emitted |->
                     StorageEvents(all, 0) \cup
                       {[chan |-> "bc", what |-> TypeOfKey(STORAGE_KEY),
                         op |-> "postMessage", id |-> 0]}]
        /\ players' = [players EXCEPT ![t] = p.ret]
        /\ tierMapping' = [tierMapping EXCEPT ![t] = mp.ret]
        /\ tierFilter' = [tierFilter EXCEPT ![t] = r.tierFilter]
        /\ rows' = [rows EXCEPT ![t] = r.rows]
  /\ UNCHANGED <<bcAvail, card, open, sortState, editingId, selected, searchInput, cont, saveSeq, landed>>
EditorReload(t) ==
  /\ t \in Editors /\ Ready(t) /\ inbox[t] > 0
  /\ LET p == loadPlayers(store)
         mp == loadMapping(p.eff.store)
         all == Effect(mp.eff.store, p.eff.evs \o mp.eff.evs)
         r == Refresh(t, p.ret)
     IN /\ store' = all.store
        /\ inbox' = Deliver([inbox EXCEPT ![t] = @ - 1], t, all)
        /\ last' = [op |-> ReloadOp(t), tab |-> t, emitted |-> StorageEvents(all, 0)]
        /\ players' = [players EXCEPT ![t] = p.ret]
        /\ tierMapping' = [tierMapping EXCEPT ![t] = mp.ret]
        /\ tierFilter' = [tierFilter EXCEPT ![t] = r.tierFilter]
        /\ rows' = [rows EXCEPT ![t] = r.rows]
  /\ UNCHANGED <<bcAvail, card, open, sortState, editingId, selected, searchInput, cont, saveSeq, landed>>

\* reloadFromStorage of the viewer, run by bc.onmessage, by the storage
\* listener and by the two custom-event listeners
ViewerReload_Reseeds(t) ==
  /\ t \in Viewers /\ Ready(t) /\ inbox[t] > 0
  /\ LET pl == viewLoadPlayers(store)
         r == Refresh(t, pl)
     IN /\ players' = [players EXCEPT ![t] = pl]
        /\ tierMapping' = [tierMapping EXCEPT ![t] = viewLoadMapping(store)]
        /\ tierFilter' = [tierFilter EXCEPT ![t] = r.tierFilter]
        /\ rows' = [rows EXCEPT ![t] = r.rows]
  /\ store' = loadPlayers(store).eff.store
  /\ inbox' = [inbox EXCEPT ![t] = @ - 1]
  /\ last' = Step(ReloadOp(t), t)
  /\ UNCHANGED <<bcAvail, card, open, sortState, editingId, selected, searchInput, cont, saveSeq, landed>>
ViewerReload(t) ==
  /\ t \in Viewers /\ Ready(t) /\ inbox[t] > 0
  /\ LET pl == viewLoadPlayers(store)
         r == Refresh(t, pl)
     IN /\ players' = [players EXCEPT ![t] = pl]
        /\ tierMapping' = [tierMapping EXCEPT ![t] = viewLoadMapping(store)]
        /\ tierFilter' = [tierFilter EXCEPT ![t] = r.tierFilter]
        /\ rows' = [rows EXCEPT ![t] = r.rows]
  /\ inbox' = [inbox EXCEPT ![t] = @ - 1]
  /\ last' = Step(ReloadOp(t), t)
  /\ UNCHANGED <<store, bcAvail, card, open, sortState, editingId, selected, searchInput, cont, saveSeq, landed>>

(* -------------------------------- saves -------------------------------- *)

\* savePlayers() and saveMapping(), as the order of their three calls.
\* Tabs run in parallel, so another tab may act between the first call of a
\* save and the rest of the handler.
savePlayers_NotifyFirst == <<"postMessage", "dispatchEvent", "setItem">>
savePlayers == <<"setItem", "postMessage", "dispatchEvent">>
saveMapping == <<"setItem", "postMessage", "dispatchEvent">>
SaveCalls(k) == IF k = STORAGE_KEY THEN savePlayers ELSE saveMapping

\* the value a save of key k by tab t writes
SavedValue(k, pl, tm) == IF k = STORAGE_KEY THEN Arr(pl) ELSE tm

World(st, inb, ld, em) == [store |-> st, inbox |-> inb, landed |-> ld, emitted |-> em]

\* one call of a save of key k (save number id) by tab t
SaveCall(call, w, t, k, id, val) ==
  CASE call = "setItem" ->
         LET eff == setItem(w.store, k, JSONstringify(val))
         IN World(eff.store, Deliver(w.inbox, t, eff),
                  [w.landed EXCEPT ![k] = @ \cup {id}], w.emitted \cup StorageEvents(eff, id))
    [] call = "postMessage" ->
         World(w.store, Post(w.inbox, t, TypeOfKey(k)), w.landed,
               IF bcAvail
               THEN w.emitted \cup {[chan |-> "bc", what |-> TypeOfKey(k), op |-> call, id |-> id]}
               ELSE w.emitted)
    [] OTHER ->
         World(w.store, w.inbox, w.landed,
               w.emitted \cup {[chan |-> "event", what |-> EventOfKey(k), op |-> call, id |-> id]})

RECURSIVE SaveCallsFrom(_, _, _, _, _, _)
SaveCallsFrom(calls, w, t, k, id, val) ==
  IF calls = <<>> THEN w
  ELSE SaveCallsFrom(Tail(calls), SaveCall(Head(calls), w, t, k, id, val), t, k, id, val)

Saving(k, id, calls, then) == [pc |-> "save", key |-> k, id |-> id, calls |-> calls, then |-> then]

\* the bound on the number of saves of a run; a handler that saves twice
\* starts only when both saves fit
CanSave(n) == saveSeq + n <= MaxSaves

\* a handler of tab t, having set pl and tm, enters a save of key k and
\* makes its first call; `then` names what the handler does after the save
BeginSave(t, k, pl, tm, then, opname) ==
  LET id == saveSeq + 1
      w == SaveCall(Head(SaveCalls(k)), World(store, inbox, landed, {}), t, k, id,
                    SavedValue(k, pl, tm))
  IN /\ saveSeq' = id
     /\ store' = w.store
     /\ inbox' = w.inbox
     /\ landed' = w.landed
     /\ cont' = [cont EXCEPT ![t] = Saving(k, id, Tail(SaveCalls(k)), then)]
     /\ last' = [op |-> opname, tab |-> t, emitted |-> w.emitted]

(* ------------------------- array and object helpers -------------------- *)

\* players.splice(index, 1), index counted from 0
Splice(list, index) ==
  [i \in 1..(Len(list) - 1) |-> IF i <= index THEN list[i] ELSE list[i + 1]]

\* players[index] = rec, index counted from 0: writing past the end
\* leaves holes
AssignAt(list, index, rec) ==
  [i \in 1..(IF index + 1 > Len(list) THEN index + 1 ELSE Len(list)) |->
     IF i = index + 1 THEN rec ELSE IF i <= Len(list) THEN list[i] ELSE Hole]

\* { ...p, points: v }
WithPoints(p, v) ==
  LET f == SpreadProps(p)
  IN Obj([k \in DOMAIN f \cup {"points"} |-> IF k = "points" THEN v ELSE f[k]])

\* the value an <input type=number> shows for x: its text when that is a
\* number, the empty text otherwise
InputValue(x) == IF StringToNumber(ToStr(x)).t = "num" /\ x.t \in {"num", "str"} /\ Trim(ToStr(x)) # ""
                 THEN ToStr(x) ELSE ""

\* The mapping grid shows what populateMappingUI put there, overwritten by
\* what the user typed since (typed: tier -> text).
mappingGrid(tm, typed) ==
  [k \in CanonicalTiers |->
     IF k \in DOMAIN typed THEN typed[k]
     ELSE InputValue(IF Lookup(tm, k).t # "undef" THEN Lookup(tm, k)
                     ELSE OrElse(mappingDefault.v[k], Num(0)))]

\* readMappingFromUI: the assignments to tierMapping
readMappingFromUI(tm, typed) ==
  LET grid == mappingGrid(tm, typed)
  IN Obj([k \in DOMAIN tm.v \cup CanonicalTiers |->
            IF k \in CanonicalTiers THEN OrElse(StringToNumber(grid[k]), Num(0)) ELSE tm.v[k]])

\* the map of applyMappingToAllPlayers (holes are skipped); p.tier raises
\* on a null element
mapAll(pl, tm) ==
  [i \in 1..Len(pl) |->
     IF pl[i].t = "hole" THEN Hole
     ELSE WithPoints(pl[i], ToNumber(Coalesce(Lookup(tm, ToStr(Get(pl[i], "tier"))), Num(0))))]

\* the map of applyMappingToEmptyPlayers
mapEmpty(pl, tm) ==
  [i \in 1..Len(pl) |->
     IF pl[i].t = "hole" THEN Hole
     ELSE IF ~Truthy(Get(pl[i], "points"))
     THEN WithPoints(pl[i], ToNumber(Coalesce(Lookup(tm, ToStr(Get(pl[i], "tier"))), Num(0))))
     ELSE pl[i]]

(* ------------------------------ user input ----------------------------- *)

\* what the user types into the add/edit form
FormInputs ==
  { [rank |-> "2", name |-> "Zed", tier |-> " HT1", points |-> ""],
    [rank |-> "0", name |-> "Amy", tier |-> "LT5", points |-> "7"],
    [rank |-> "1", name |-> " ", tier |-> "LT5", points |-> ""] }

\* what the user types into the mapping grid before pressing a button
MappingEdits == { <<>>, [k \in {"LT5"} |-> "15"] }

\* the files the user imports
DupA == Player(Num(1), Str("Amy"), Str("LT5"), Num(10))
DupB == Player(Num(2), Str("Bob"), Str("HT1"), Num(0))
ImportFiles ==
  { [ext |-> "json", raw |-> JSONText(Arr(<<DupA, DupB, DupA>>))],
    [ext |-> "json", raw |-> JSONText(Obj([players |-> Arr(<<DupA>>)]))],
    [ext |-> "json", raw |-> CorruptText] }

SearchTexts == {"", "h"}
FilterChoices == {"", "HT1"}
SortFields == {"rank", "points"}

(* --------------------------- editor handlers --------------------------- *)

\* a handler that changes nothing but the history
Nothing(opname, t) ==
  /\ last' = Step(opname, t)
  /\ UNCHANGED <<store, bcAvail, card, open, players, tierMapping, sortState, editingId, selected, searchInput,
                 tierFilter, rows, cont, inbox, saveSeq, landed>>

\* click on the Edit button of row i: the wiring of renderTable, startEdit
EditClick(t, i) ==
  /\ t \in Editors /\ Ready(t) /\ i \in 1..Len(rows[t])
  /\ LET index == realIndex(players[t], rows[t][i]) IN
     IF index = 0 - 1 \/ findIndexThrows(players[t], rows[t][i])
     THEN Nothing("editNothing", t)
     ELSE /\ editingId' = [editingId EXCEPT ![t] = Num(index)]
          /\ selected' = [selected EXCEPT ![t] = players[t][index + 1]]
          /\ last' = Step("startEdit", t)
          /\ UNCHANGED <<store, bcAvail, card, open, players, tierMapping, sortState, searchInput,
                         tierFilter, rows, cont, inbox, saveSeq, landed>>

\* click on the Delete button of row i: the wiring of renderTable, doDelete
DeleteClick(t, i, yes) ==
  /\ t \in Editors /\ Ready(t) /\ i \in 1..Len(rows[t])
  /\ LET index == realIndex(players[t], rows[t][i]) IN
     IF index = 0 - 1 \/ findIndexThrows(players[t], rows[t][i])
     THEN yes /\ Nothing("deleteNothing", t)
     ELSE IF ~yes THEN Nothing("deleteDeclined", t)
     ELSE LET pl == Splice(players[t], index)
          IN /\ CanSave(1)
             /\ players' = [players EXCEPT ![t] = pl]
             /\ BeginSave(t, STORAGE_KEY, pl, tierMapping[t], "refresh", "delete")
             /\ UNCHANGED <<bcAvail, card, open, tierMapping, sortState, editingId, selected, searchInput,
                            tierFilter, rows>>

\* the click handler of #clearBtn
ClearClick(t, yes) ==
  /\ t \in Editors /\ Ready(t)
  /\ IF ~yes THEN Nothing("clearDeclined", t)
     ELSE /\ CanSave(1)
          /\ players' = [players EXCEPT ![t] = <<>>]
          /\ BeginSave(t, STORAGE_KEY, <<>>, tierMapping[t], "refresh", "clear")
          /\ UNCHANGED <<bcAvail, card, open, tierMapping, sortState, editingId, selected, searchInput,
                         tierFilter, rows>>

\* the object the submit handler builds from the form
formRaw_NoTrim(inp, tm) ==
  LET tierInput == Trim(inp.tier)
      pointsInput == IF inp.points = "" THEN Null ELSE StringToNumber(inp.points)
  IN Obj([rank |-> OrElse(StringToNumber(inp.rank), Num(0)),
          name |-> Str(inp.name),
          tier |-> Str(tierInput),
          points |-> IF pointsInput = Null THEN Coalesce(Lookup(tm, tierInput), Num(0))
                     ELSE pointsInput])
formRaw(inp, tm) ==
  LET tierInput == Trim(inp.tier)
      pointsInput == IF inp.points = "" THEN Null ELSE StringToNumber(inp.points)
  IN Obj([rank |-> OrElse(StringToNumber(inp.rank), Num(0)),
          name |-> Str(Trim(inp.name)),
          tier |-> Str(tierInput),
          points |-> IF pointsInput = Null THEN Coalesce(Lookup(tm, tierInput), Num(0))
                     ELSE pointsInput])

\* the submit handler of #playerForm
Submit(t, inp) ==
  /\ t \in Editors /\ Ready(t)
  /\ LET raw == formRaw(inp, tierMapping[t])
         rec == normalizePlayer(raw, tierMapping[t])
         put == IF editingId[t] = Null THEN Append(players[t], rec)
                ELSE AssignAt(players[t], editingId[t].v, rec)
     IN IF ~Truthy(Get(raw, "name")) THEN Nothing("submitRejected", t)
        ELSE /\ editingId[t] = Null => Len(players[t]) < MaxPlayers
             /\ SortThrows(put) \/ CanSave(1)
             /\ editingId' = [editingId EXCEPT ![t] = Null]
             /\ selected' = [selected EXCEPT ![t] = Null]
             /\ IF SortThrows(put)
                THEN /\ players' = [players EXCEPT ![t] = put]
                     /\ last' = Step("submitThrew", t)
                     /\ UNCHANGED <<store, cont, inbox, saveSeq, landed>>
                ELSE LET pl == ArraySort([by |-> "rankdiff"], put)
                     IN /\ players' = [players EXCEPT ![t] = pl]
                        /\ BeginSave(t, STORAGE_KEY, pl, tierMapping[t], "refresh",
                                     IF editingId[t] = Null THEN "add" ELSE "submitEdit")
             /\ UNCHANGED <<bcAvail, card, open, tierMapping, sortState, searchInput, tierFilter, rows>>

\* #cancelEdit: resetForm
CancelEdit(t) ==
  /\ t \in Editors /\ Ready(t)
  /\ editingId' = [editingId EXCEPT ![t] = Null]
  /\ selected' = [selected EXCEPT ![t] = Null]
  /\ last' = Step("cancel", t)
  /\ UNCHANGED <<store, bcAvail, card, open, players, tierMapping, sortState, searchInput,
                 tierFilter, rows, cont, inbox, saveSeq, landed>>

(* ------------------------------ CSV import ----------------------------- *)

\* the loop of splitCSVLine from position i on: cur is the field being
\* read, inQuotes the quote state, res the fields read so far
RECURSIVE splitFrom(_, _, _, _, _)
splitFrom(line, i, cur, inQuotes, res) ==
  IF i > Len(line) THEN Append(res, cur)
  ELSE IF CharAt(line, i) = "\""
  THEN IF inQuotes /\ i < Len(line) /\ CharAt(line, i + 1) = "\""
       THEN splitFrom(line, i + 2, cur \o "\"", inQuotes, res)
       ELSE splitFrom(line, i + 1, cur, ~inQuotes, res)
  ELSE IF CharAt(line, i) = "," /\ ~inQuotes
  THEN splitFrom(line, i + 1, "", inQuotes, Append(res, cur))
  ELSE splitFrom(line, i + 1, cur \o CharAt(line, i), inQuotes, res)

splitCSVLine_StartsQuoted(line) == splitFrom(line, 1, "", TRUE, <<>>)
splitCSVLine(line) == splitFrom(line, 1, "", FALSE, <<>>)

\* text.split(/\r?\n/)
RECURSIVE splitLines(_, _)
splitLines(text, cur) ==
  IF text = "" THEN <<cur>>
  ELSE IF Head(text) = "\n" THEN <<cur>> \o splitLines(Tail(text), "")
  ELSE IF Len(text) >= 2 /\ SubSeq(text, 1, 2) = "\r\n" THEN <<cur>> \o splitLines(Drop(text, 2), "")
  ELSE splitLines(Tail(text), cur \o Head(text))

\* parseCSV: the rows of the text as objects keyed by the trimmed,
\* lower-cased headers; a header that occurs twice keeps its last column
parseCSV(text) ==
  LET lines == SelectSeq(splitLines(text, ""), LAMBDA l : Trim(l) # "")
      heads == splitCSVLine(lines[1])
      headers == [i \in 1..Len(heads) |-> ToLowerCase(Trim(heads[i]))]
      column(h) == CHOOSE i \in 1..Len(headers) :
                     headers[i] = h /\ \A j \in (i + 1)..Len(headers) : headers[j] # h
      row(line) == LET vals == splitCSVLine(line)
                   IN Obj([h \in {headers[i] : i \in 1..Len(headers)} |->
                             IF column(h) <= Len(vals) THEN Str(vals[column(h)]) ELSE Str("")])
  IN IF lines = <<>> THEN <<>>
     ELSE [i \in 1..(Len(lines) - 1) |-> row(lines[i + 1])]

\* the object importDataFromFile builds from a CSV row r
csvItem(r) ==
  Obj([rank |-> Coalesce(Get(r, "rank"), Coalesce(Get(r, "Rank"), Get(r, "RANK"))),
       name |-> Coalesce(Get(r, "name"),
                  Coalesce(Get(r, "Name"), Coalesce(Get(r, "NAME"), Get(r, "player")))),
       tier |-> Coalesce(Get(r, "tier"), Coalesce(Get(r, "Tier"), Get(r, "TIER"))),
       points |-> Coalesce(Get(r, "points"),
                    Coalesce(Get(r, "Points"), Coalesce(Get(r, "POINTS"), Get(r, "score"))))])

\* reader.onload of importDataFromFile: a .json file raises when its text
\* is no JSON, when the JSON is no array, and when normalizePlayer reads a
\* property of a null element; a file of another name is read as CSV
importThrows_NullPasses(file) ==
  /\ file.ext = "json"
  /\ \/ ParseThrows(file.raw)
     \/ JSONparse(file.raw).t # "arr"
importThrows(file) ==
  /\ file.ext = "json"
  /\ \/ ParseThrows(file.raw)
     \/ JSONparse(file.raw).t # "arr"
     \/ \E i \in 1..Len(JSONparse(file.raw).v) : Nullish(JSONparse(file.raw).v[i])

importedPlayers(file, tm) ==
  IF file.ext = "json"
  THEN [i \in 1..Len(JSONparse(file.raw).v) |-> normalizePlayer(JSONparse(file.raw).v[i], tm)]
  ELSE LET parsed == parseCSV(file.raw)
       IN [i \in 1..Len(parsed) |-> normalizePlayer(csvItem(parsed[i]), tm)]

Import(t, file) ==
  /\ t \in Editors /\ Ready(t)
  /\ IF importThrows(file) THEN Nothing("importFailed", t)
     ELSE LET pl == importedPlayers(file, tierMapping[t])
          IN /\ CanSave(1)
             /\ players' = [players EXCEPT ![t] = pl]
             /\ BeginSave(t, STORAGE_KEY, pl, tierMapping[t], "refresh", "import")
             /\ UNCHANGED <<bcAvail, card, open, tierMapping, sortState, editingId, selected, searchInput,
                            tierFilter, rows>>

\* the four buttons of initMappingButtons; each first runs readMappingFromUI
\* (reset excepted), which ends in saveMapping()
MappingClick(t, typed, button) ==
  /\ t \in Editors /\ Ready(t)
  /\ CanSave(IF button \in {"applyAll", "applyEmpty"} THEN 2 ELSE 1)
  /\ LET tm == readMappingFromUI(tierMapping[t], typed)
     IN /\ tierMapping' = [tierMapping EXCEPT ![t] = tm]
        /\ BeginSave(t, MAPPING_KEY, players[t], tm, button, button)
  /\ UNCHANGED <<bcAvail, card, open, players, sortState, editingId, selected, searchInput, tierFilter, rows>>

SaveMappingClick(t, typed) == MappingClick(t, typed, "saveMapping")
ApplyAllClick(t, typed) == MappingClick(t, typed, "applyAll")
ApplyEmptyClick(t, typed) == MappingClick(t, typed, "applyEmpty")

\* resetMappingToDefault
ResetMappingClick(t, yes) ==
  /\ t \in Editors /\ Ready(t)
  /\ IF ~yes THEN Nothing("resetDeclined", t)
     ELSE /\ CanSave(1)
          /\ tierMapping' = [tierMapping EXCEPT ![t] = mappingDefault]
          /\ BeginSave(t, MAPPING_KEY, players[t], mappingDefault, "resetMapping", "resetMapping")
          /\ UNCHANGED <<bcAvail, card, open, players, sortState, editingId, selected, searchInput,
                         tierFilter, rows>>

\* The rest of a handler whose save has made its first call: the remaining
\* calls of the save, then what follows the save in the handler.  For the
\* two apply buttons that is applyMappingToAllPlayers (with its confirm) or
\* applyMappingToEmptyPlayers, which enter savePlayers().
Continue(t, yes) ==
  /\ open[t] /\ cont[t].pc = "save"
  /\ LET c == cont[t]
         w == SaveCallsFrom(c.calls, World(store, inbox, landed, {}), t, c.key, c.id,
                            SavedValue(c.key, players[t], tierMapping[t]))
         apply == c.then \in {"applyAll", "applyEmpty"}
         declined == c.then = "applyAll" /\ ~yes
         pl == IF c.then = "applyAll" THEN mapAll(players[t], tierMapping[t])
               ELSE mapEmpty(players[t], tierMapping[t])
     IN IF apply /\ ~declined /\ ~HasNull(players[t])
        THEN LET id == saveSeq + 1
                 w2 == SaveCall(Head(savePlayers), w, t, STORAGE_KEY, id, Arr(pl))
             IN /\ CanSave(1)
                /\ saveSeq' = id
                /\ players' = [players EXCEPT ![t] = pl]
                /\ store' = w2.store
                /\ inbox' = w2.inbox
                /\ landed' = w2.landed
                /\ cont' = [cont EXCEPT ![t] = Saving(STORAGE_KEY, id, Tail(savePlayers), "render")]
                /\ last' = [op |-> c.then, tab |-> t, emitted |-> w2.emitted]
                /\ UNCHANGED <<tierFilter, rows>>
        ELSE /\ (c.then # "applyAll") => yes
             /\ store' = w.store
             /\ inbox' = w.inbox
             /\ landed' = w.landed
             /\ cont' = [cont EXCEPT ![t] = Idle]
             /\ last' = [op |-> IF declined THEN "applyAllDeclined"
                                ELSE IF apply THEN "applyThrew" ELSE "saved",
                         tab |-> t, emitted |-> w.emitted]
             /\ IF c.then = "refresh"
                THEN LET r == Refresh(t, players[t])
                     IN /\ tierFilter' = [tierFilter EXCEPT ![t] = r.tierFilter]
                        /\ rows' = [rows EXCEPT ![t] = r.rows]
                ELSE IF c.then = "render"
                THEN /\ rows' = [rows EXCEPT ![t] = Rerender(t, players[t], searchInput[t],
                                                             tierFilter[t], sortState[t])]
                     /\ UNCHANGED tierFilter
                ELSE UNCHANGED <<tierFilter, rows>>
             /\ UNCHANGED <<players, saveSeq>>
  /\ UNCHANGED <<bcAvail, card, open, tierMapping, sortState, editingId, selected, searchInput>>

(* ------------------- view controls (editor and viewer) ----------------- *)

\* the input handler of #searchInput
Search(t, q) ==
  /\ Ready(t) /\ q # searchInput[t]
  /\ searchInput' = [searchInput EXCEPT ![t] = q]
  /\ rows' = [rows EXCEPT ![t] = Rerender(t, players[t], q, tierFilter[t], sortState[t])]
  /\ last' = Step("search", t)
  /\ UNCHANGED <<store, bcAvail, card, open, players, tierMapping, sortState, editingId, selected,
                 tierFilter, cont, inbox, saveSeq, landed>>

\* getUniqueTiers: the options populateTierFilter offers (as a set)
getUniqueTiers(pl) ==
  {Trim(OrElse(Get(pl[i], "tier"), Str("")).v) : i \in {j \in 1..Len(pl) : pl[j].t # "hole"}}
     \cup CanonicalTiers

\* the change handler of #tierFilter
Filter(t, tier) ==
  /\ Ready(t) /\ tier # tierFilter[t]
  /\ tier = "" \/ (~getUniqueTiersThrows(players[t]) /\ tier \in getUniqueTiers(players[t]) \ {""})
  /\ tierFilter' = [tierFilter EXCEPT ![t] = tier]
  /\ rows' = [rows EXCEPT ![t] = Rerender(t, players[t], searchInput[t], tier, sortState[t])]
  /\ last' = Step("filter", t)
  /\ UNCHANGED <<store, bcAvail, card, open, players, tierMapping, sortState, editingId, selected,
                 searchInput, cont, inbox, saveSeq, landed>>

\* the click handler of a sortable column header
clickSort_KeepsDirection(st, field) ==
  IF st.field = field THEN [st EXCEPT !.dir = IF st.dir = "asc" THEN "desc" ELSE "asc"]
  ELSE [field |-> field, dir |-> st.dir]
clickSort(st, field) ==
  IF st.field = field THEN [st EXCEPT !.dir = IF st.dir = "asc" THEN "desc" ELSE "asc"]
  ELSE [field |-> field, dir |-> "asc"]

SortClick(t, field) ==
  /\ Ready(t)
  /\ sortState' = [sortState EXCEPT ![t] = clickSort(sortState[t], field)]
  /\ rows' = [rows EXCEPT ![t] = Rerender(t, players[t], searchInput[t], tierFilter[t],
                                          clickSort(sortState[t], field))]
  /\ last' = Step("sort", t)
  /\ UNCHANGED <<store, bcAvail, card, open, players, tierMapping, editingId, selected, searchInput,
                 tierFilter, cont, inbox, saveSeq, landed>>

\* #exportBtn: downloadJSON
Export(t) == Ready(t) /\ Nothing("export", t)

\* the file downloadJSON offers for the list pl
downloadJSON(pl) == [ext |-> "json", raw |-> JSONstringify(Arr(pl))]

\* the user imports the file the Export button has just produced
ImportExported(t) == Import(t, downloadJSON(players[t]))

(* ------------------------ the home page's events ----------------------- *)

\* DOMContentLoaded of the home page: updateServerCard() sets the year and
\* awaits fetchServerStatus.  The page's markup has the #srv-connect link
\* or not, and the link may name the server already.
PageLoad(hasLink, preset) ==
  /\ card.pc = "closed"
  /\ card' = [NoCard EXCEPT !.pc = "fetching", !.year = TRUE, !.hasLink = hasLink,
                            !.linkText = IF hasLink /\ preset THEN connectText ELSE "",
                            !.linkHref = IF hasLink /\ preset THEN connectHref ELSE ""]
  /\ UNCHANGED <<store, bcAvail, open, players, tierMapping, sortState, editingId, selected,
                 searchInput, tierFilter, rows, cont, inbox, saveSeq, landed, last>>

\* the request settles with res and updateServerCard goes on
FetchSettles(res) ==
  /\ card.pc = "fetching"
  /\ card' = updateServerCard(card, fetchServerStatus(res))
  /\ UNCHANGED <<store, bcAvail, open, players, tierMapping, sortState, editingId, selected,
                 searchInput, tierFilter, rows, cont, inbox, saveSeq, landed, last>>

(* --------------------------- specifications ---------------------------- *)

\* page load and notification handling
EditorLoad(t) == OpenEditor(t) \/ EditorReload(t)
ViewerLoad(t) == OpenViewer(t) \/ ViewerReload(t)

\* the handlers of the editor that may save
SaveStep(t) ==
  \/ \E yes \in BOOLEAN : ClearClick(t, yes)
  \/ \E inp \in FormInputs : Submit(t, inp)
  \/ \E file \in ImportFiles : Import(t, file)
  \/ \E typed \in MappingEdits : SaveMappingClick(t, typed)
  \/ \E typed \in MappingEdits : ApplyAllClick(t, typed)
  \/ \E typed \in MappingEdits : ApplyEmptyClick(t, typed)
  \/ \E yes \in BOOLEAN : ResetMappingClick(t, yes)
  \/ \E yes \in BOOLEAN : Continue(t, yes)

\* the row buttons and the cancel button
RowStep(t) ==
  \/ \E i \in 1..Len(rows[t]) : EditClick(t, i)
  \/ \E i \in 1..Len(rows[t]), yes \in BOOLEAN : DeleteClick(t, i, yes)
  \/ CancelEdit(t)

ViewStep(t) ==
  \/ \E q \in SearchTexts : Search(t, q)
  \/ \E tier \in FilterChoices : Filter(t, tier)
  \/ \E field \in SortFields : SortClick(t, field)
  \/ Export(t)

\* Spec: one editor tab with all its data handlers, from an empty store
Next ==
  \/ EditorLoad("e1")
  \/ SaveStep("e1")
  \/ RowStep("e1")

Spec == Init /\ [][Next]_vars

\* SpecView: one editor tab whose user imports a file, searches, filters,
\* sorts and uses the row buttons
NextView ==
  \/ EditorLoad("e1")
  \/ Import("e1", [ext |-> "json", raw |-> JSONText(Arr(<<DupA, DupB, DupA>>))])
  \/ \E yes \in BOOLEAN : Continue("e1", yes)
  \/ RowStep("e1")
  \/ ViewStep("e1")

SpecView == Init /\ [][NextView]_vars

\* SpecImport: one editor tab whose user imports JSON files of many
\* shapes, submits the form with the same entered values and edits the
\* mapping.

\* the items of the imported JSON files: the points, tier, name and rank
\* fields in their absent, empty, textual, numeric and alternate forms
ProbeItems ==
  { Obj([rank |-> Num(2), name |-> Str("Al"), tier |-> Str(" LT5 "), points |-> pts]) :
      pts \in {Null, Str(""), Str(" "), Str("abc"), Str("12"), Num(0), Num(7), Num(0 - 5)} }
  \cup { Obj([name |-> Str("Al"), tier |-> tv]) : tv \in {Str("ZZ"), Str(" HT1"), Str(""), Num(5)} }
  \cup { Obj([name |-> Str("Al"), Tier |-> Str("HT1")]),
         Obj([name |-> Str("Al"), TIER |-> Str("LT5"), points |-> Str("abc")]),
         Obj([tier |-> Str("LT5")]),
         Obj([name |-> Str(""), player |-> Str("Pat")]),
         Obj([username |-> Str("Uma")]),
         Obj([name |-> Num(0), username |-> Str("Uma")]),
         Obj([name |-> Str(" Al ")]),
         Obj([rank |-> Str("x"), name |-> Str("Al")]),
         Obj([rank |-> Str("3"), name |-> Str("Al")]),
         Obj([rank |-> Null, name |-> Str("Al"), points |-> Num(3)]) }

\* what the user types into the add/edit form of SpecImport
ProbeForms ==
  { [rank |-> "2", name |-> "Al", tier |-> tv, points |-> pts] :
      tv \in {" LT5 ", "ZZ"}, pts \in {"", " ", "abc", "12", "-5"} }
  \cup { [rank |-> "1", name |-> " ", tier |-> "LT5", points |-> "4"] }

\* the item of a JSON file that holds the texts typed into the form
formItem(inp) ==
  Obj([rank |-> Str(inp.rank), name |-> Str(inp.name), tier |-> Str(inp.tier),
       points |-> Str(inp.points)])

JsonFile(items) == [ext |-> "json", raw |-> JSONText(Arr(items))]

\* .json files whose import fails
BadFiles ==
  { [ext |-> "json", raw |-> CorruptText],
    [ext |-> "json", raw |-> JSONText(Obj([players |-> Arr(<<DupA>>)]))],
    JsonFile(<<DupA, Null>>) }

\* s with every double quote doubled
RECURSIVE DoubleQuotes(_)
DoubleQuotes(s) ==
  IF s = "" THEN ""
  ELSE (IF Head(s) = "\"" THEN "\"\"" ELSE Head(s)) \o DoubleQuotes(Tail(s))

\* the names of the CSV rows below, with commas, quotes and blanks
NameFields == {"Smith, \"The Rock\"", "a,b", "\"", ",", "", "a\"\"b", " x ", "a"}

\* a .csv file with one row whose name field is written in double quotes,
\* and one whose name field (free of commas and quotes) is written plainly
QuotedCsv(name) ==
  [ext |-> "csv",
   raw |-> "rank,name,tier,points\n1,\"" \o DoubleQuotes(name) \o "\",HT1,100"]
PlainCsv(name) == [ext |-> "csv", raw |-> "rank,name,tier,points\n1," \o name \o ",HT1,100"]

\* .csv files
CsvFiles ==
  {QuotedCsv(name) : name \in NameFields} \cup {PlainCsv(name) : name \in {" x ", "a"}} \cup
  { [ext |-> "csv", raw |-> "rank,name,tier,points\n1,ab\"c,d\"e,HT1,100"],
    [ext |-> "csv", raw |-> "Name, Tier\r\nBob,LT5\r\n\r\nCy,\" HT1\"\r\n"],
    [ext |-> "csv", raw |-> "username,tier\nUma,HT1"],
    [ext |-> "csv", raw |-> "name,player,points\n,Pat,-5"],
    [ext |-> "csv", raw |-> "player,score\nPat,abc"],
    [ext |-> "csv", raw |-> "name,tier,points\nBob"] }

JsonFiles ==
  {JsonFile(<<x>>) : x \in ProbeItems} \cup {JsonFile(<<formItem(inp)>>) : inp \in ProbeForms}
    \cup BadFiles

NextImport ==
  \/ EditorLoad("e1")
  \/ \E file \in JsonFiles : Import("e1", file)
  \/ \E inp \in ProbeForms : Submit("e1", inp)
  \/ SaveMappingClick("e1", [k \in {"LT5"} |-> "-5"])
  \/ Continue("e1", TRUE)

SpecImport == Init /\ [][NextImport]_vars

\* SpecCsv: one editor tab whose user imports CSV files
NextCsv ==
  \/ EditorLoad("e1")
  \/ \E file \in CsvFiles : Import("e1", file)
  \/ Continue("e1", TRUE)

SpecCsv == Init /\ [][NextCsv]_vars

\* SpecApply: one editor tab loaded on a store the editor has left behind,
\* whose user presses the two apply buttons of the mapping grid.  The list
\* with a null element is what a submit through a stale editing index
\* persists.
ApplyStores ==
  { [k \in StorageKeys |-> IF k = STORAGE_KEY THEN item ELSE JSONText(mappingDefault)] :
      item \in { JSONText(Arr(<<Player(Num(1), Str("Amy"), Str("LT5"), Num(0)),
                                Player(Num(2), Str("Bob"), Str("ZZ"), Num(7)),
                                Player(Num(3), Str("Cy"), Str("HT1"), Num(50))>>)),
                 JSONText(Arr(<<Player(Num(0), Str("Amy"), Str("LT5"), Num(7)), Null>>)),
                 JSONText(Arr(initialData)) } }

InitApply == \E st \in ApplyStores : InitWith(st)

NextApply ==
  \/ EditorLoad("e1")
  \/ \E typed \in MappingEdits : ApplyAllClick("e1", typed)
  \/ \E typed \in MappingEdits : ApplyEmptyClick("e1", typed)
  \/ \E typed \in MappingEdits : SaveMappingClick("e1", typed)
  \/ \E yes \in BOOLEAN : Continue("e1", yes)

SpecApply == InitApply /\ [][NextApply]_vars

\* SpecSort: an editor tab and a viewer tab whose users search, filter and
\* sort while the editor saves and both handle the notifications
NextSort ==
  \/ EditorLoad("e1")
  \/ ViewerLoad("v1")
  \/ \E t \in {"e1", "v1"}, field \in SortFields : SortClick(t, field)
  \/ \E q \in SearchTexts : Search("e1", q)
  \/ \E tier \in FilterChoices : Filter("v1", tier)
  \/ ClearClick("e1", TRUE)
  \/ Continue("e1", TRUE)

SpecSort == Init /\ [][NextSort]_vars

\* SpecTrip: the editor tab of Spec whose user also imports the file the
\* Export button produced
NextTrip == Next \/ ImportExported("e1")

SpecTrip == Init /\ [][NextTrip]_vars


\* SpecOrder: an editor and a viewer loaded on a store that holds a list
\* of three records, whose users click the sortable headers
FixturePoints == {0, 10, 20}

Fixture(a, b, c) ==
  Arr(<<Player(Num(1), Str("Amy"), Str("HT1"), Num(a)),
        Player(Num(2), Str("Bob"), Str("LT3"), Num(b)),
        Player(Num(3), Str("Cy"), Str("LT5"), Num(c))>>)

OrderStores ==
  { [k \in StorageKeys |-> IF k = STORAGE_KEY THEN JSONText(Fixture(a, b, c))
                                               ELSE JSONText(mappingDefault)] :
      a \in FixturePoints, b \in FixturePoints, c \in FixturePoints }

InitOrder == \E st \in OrderStores : InitWith(st)

NextOrder ==
  \/ OpenEditor("e1")
  \/ OpenViewer("v1")
  \/ \E t \in {"e1", "v1"}, field \in SortFields : SortClick(t, field)

SpecOrder == InitOrder /\ [][NextOrder]_vars


\* SpecLoad: an editor and a viewer are loaded on a store left in any of
\* the conditions below and handle notifications, among them ones that no
\* save caused; another script of the origin may remove or garble an item
MaxPending == 2

PlayersContents ==
  { Absent, EmptyText, CorruptText,
    JSONText(Num(5)), JSONText(Null), JSONText(Obj([players |-> Arr(<<DupA>>)])),
    JSONText(Arr(<<>>)), JSONText(Arr(<<DupB, DupA>>)) }

MappingContents ==
  { Absent, EmptyText, CorruptText,
    JSONText(Num(5)), JSONText(Null), JSONText(Str("ab")), JSONText(Arr(<<Num(1)>>)),
    JSONText(Obj([LT5 |-> Num(10)])), JSONText(Obj([LT5 |-> Num(15), ZZ |-> Num(1)])),
    JSONText(mappingDefault) }

LoadStores ==
  { [k \in StorageKeys |-> IF k = STORAGE_KEY THEN p ELSE m] :
      p \in PlayersContents, m \in MappingContents }

InitLoad == \E st \in LoadStores : InitWith(st)

\* a notification reaches tab t although nothing was saved
Spurious(t) ==
  /\ open[t] /\ inbox[t] < MaxPending
  /\ inbox' = [inbox EXCEPT ![t] = @ + 1]
  /\ last' = Step("spurious", t)
  /\ UNCHANGED <<store, bcAvail, card, open, players, tierMapping, sortState, editingId, selected, searchInput,
                 tierFilter, rows, cont, saveSeq, landed>>

\* an item is removed or overwritten from outside the two pages; the open
\* tabs get the storage event
ExternalContents == { Absent, CorruptText }

ExternalWrite(k, item) ==
  /\ \A t \in Tabs : inbox[t] < MaxPending
  /\ store[k] # item
  /\ store' = [store EXCEPT ![k] = item]
  /\ inbox' = [t \in Tabs |-> IF open[t] THEN inbox[t] + 1 ELSE inbox[t]]
  /\ last' = Step("external", "")
  /\ UNCHANGED <<bcAvail, card, open, players, tierMapping, sortState, editingId, selected, searchInput,
                 tierFilter, rows, cont, saveSeq, landed>>

NextLoad ==
  \/ EditorLoad("e1")
  \/ ViewerLoad("v1")
  \/ \E t \in {"e1", "v1"} : Spurious(t)
  \/ \E k \in StorageKeys, item \in ExternalContents : ExternalWrite(k, item)

SpecLoad == InitLoad /\ [][NextLoad]_vars

\* SpecViewer: a viewer with every one of its handlers, loaded on a store
\* whose keys are absent, corrupt, partial or valid (ViewerStores), next to
\* an editor that clears the list; the viewer also gets notifications that
\* no save caused
NextViewer ==
  \/ EditorLoad("e1")
  \/ ViewerLoad("v1")
  \/ ViewStep("v1")
  \/ Spurious("v1")
  \/ ClearClick("e1", TRUE)
  \/ Continue("e1", TRUE)

ViewerStores ==
  { [k \in StorageKeys |-> IF k = STORAGE_KEY THEN p ELSE m] :
      p \in { Absent, CorruptText, JSONText(Arr(<<DupB, DupA>>)) },
      m \in { Absent, CorruptText, JSONText(Obj([LT5 |-> Num(10)])), JSONText(mappingDefault) } }

InitViewer == \E st \in ViewerStores : InitWith(st)

SpecViewer == InitViewer /\ [][NextViewer]_vars

\* SpecCard: the home page is loaded and the status request settles in
\* any of the ways of Responses
StatusFields == {"online", "players", "motd", "hostname"}

FullStatuses ==
  { [online |-> o, players |-> p, motd |-> m, hostname |-> Str("mc.example.org")] :
      o \in { Bool(TRUE), Bool(FALSE) },
      p \in { Obj([online |-> Num(3), max |-> Num(20)]), Obj([online |-> Num(0)]),
              Obj([max |-> Num(20)]) },
      m \in { Obj([clean |-> Arr(<<Str("Hi"), Str("all ")>>)]),
              Obj([raw |-> Arr(<<Str(" Hi")>>)]),
              Obj([clean |-> Arr(<<>>)]) } }

StatusObjects ==
  { Obj([k \in S |-> full[k]]) : S \in SUBSET StatusFields, full \in FullStatuses }

Responses ==
  { FetchRejected, NotOk, CorruptText, JSONText(Null) } \cup { JSONText(j) : j \in StatusObjects }

NextCard ==
  \/ \E hasLink \in BOOLEAN, preset \in BOOLEAN : PageLoad(hasLink, preset)
  \/ \E res \in Responses : FetchSettles(res)

SpecCard == Init /\ [][NextCard]_vars

\* SpecSync: two editors and a viewer, all three pages loaded on a store
\* that the first editor has seeded; the editors save and every tab handles
\* its notifications
Seeded == loadMapping(loadPlayers(EmptyStore).eff.store).eff.store

Loaded(t) ==
  [players |-> IF t \in Editors THEN loadPlayers(Seeded).ret ELSE viewLoadPlayers(Seeded),
   tierMapping |-> IF t \in Editors THEN loadMapping(Seeded).ret ELSE viewLoadMapping(Seeded)]

InitSync ==
  /\ store = Seeded
  /\ bcAvail \in BOOLEAN
  /\ card = NoCard
  /\ open = [t \in Tabs |-> TRUE]
  /\ players = [t \in Tabs |-> Loaded(t).players]
  /\ tierMapping = [t \in Tabs |-> Loaded(t).tierMapping]
  /\ sortState = [t \in Tabs |-> InitialSort]
  /\ editingId = [t \in Tabs |-> Null]
  /\ selected = [t \in Tabs |-> Null]
  /\ searchInput = [t \in Tabs |-> ""]
  /\ tierFilter = [t \in Tabs |-> ""]
  /\ rows = [t \in Tabs |-> applyFiltersAndRender(Loaded(t).players, "", "", InitialSort)]
  /\ cont = [t \in Tabs |-> Idle]
  /\ inbox = [t \in Tabs |-> 0]
  /\ saveSeq = 0
  /\ landed = [k \in StorageKeys |-> {}]
  /\ last = [op |-> "init", tab |-> "", emitted |-> {}]


NextSync ==
  \/ \E t \in Tabs : EditorReload(t) \/ ViewerReload(t)
  \/ \E t \in Editors : ClearClick(t, TRUE) \/ Continue(t, TRUE)
  \/ \E i \in 1..Len(rows["e1"]) : EditClick("e1", i)
  \/ Submit("e1", [rank |-> "2", name |-> "Zed", tier |-> " HT1", points |-> ""])
  \/ SaveMappingClick("e1", [k \in {"LT5"} |-> "15"])

SpecSync == InitSync /\ [][NextSync]_vars

\* SpecQuiet: the two editors and the viewer of SpecSync; an item may be
\* garbled from outside the pages before the first save, and an editor
\* clears the list, MaxSaves writes in all.  The browser runs the listener of every queued notification and a
\* handler that has begun a save runs to its end, so the reloads and the
\* rest of a save are weakly fair.  The fairness of a reload is stated on
\* what the reload does to the queues (EditorHandles, ViewerHandles): a
\* step changes inbox that way exactly when it is that tab's reload
\* (HandlesIsReload).
Garble(k) ==
  /\ CanSave(1) /\ saveSeq = 0
  /\ store[k] # CorruptText
  /\ store' = [store EXCEPT ![k] = CorruptText]
  /\ inbox' = [t \in Tabs |-> IF open[t] THEN inbox[t] + 1 ELSE inbox[t]]
  /\ saveSeq' = saveSeq + 1
  /\ last' = Step("external", "")
  /\ UNCHANGED <<bcAvail, card, open, players, tierMapping, sortState, editingId, selected, searchInput,
                 tierFilter, rows, cont, landed>>

NextQuiet ==
  \/ \E t \in Editors : EditorReload(t)
  \/ ViewerReload("v1")
  \/ ClearClick("e1", TRUE)
  \/ Continue("e1", TRUE)
  \/ \E k \in StorageKeys : Garble(k)

EditorHandles(t) ==
  /\ t \in Editors /\ Ready(t) /\ inbox[t] > 0
  /\ LET p == loadPlayers(store)
         mp == loadMapping(p.eff.store)
         all == Effect(mp.eff.store, p.eff.evs \o mp.eff.evs)
     IN inbox' = Deliver([inbox EXCEPT ![t] = @ - 1], t, all)

ViewerHandles(t) ==
  /\ t \in Viewers /\ Ready(t) /\ inbox[t] > 0
  /\ inbox' = [inbox EXCEPT ![t] = @ - 1]

HandlesIsReload ==
  [][/\ \A t \in Editors : EditorHandles(t) <=> EditorReload(t)
     /\ ViewerHandles("v1") <=> ViewerReload("v1")]_vars

SpecQuiet ==
  /\ InitSync /\ [][NextQuiet]_vars
  /\ \A t \in Editors : WF_inbox(EditorHandles(t))
  /\ WF_inbox(ViewerHandles("v1"))
  /\ WF_vars(Continue("e1", TRUE))

(* ------------------------------- claims -------------------------------- *)

\* C1: savePlayers and saveMapping write the store before they notify: the
\* broadcast message and the same-page signal a step emits belong to a save
\* whose setItem has been done, so whoever handles them finds in the store
\* the value of that save or of a later one.
C1_WriteBeforeNotify ==
  \A m \in last.emitted :
     m.chan \in {"bc", "event"} => m.id \in landed[KeyOfNotification(m.what)]

\* a save has posted its broadcast message and the editor's own listener
\* has it pending
C1_Witness ==
  /\ \E m \in last.emitted : m.chan = "bc" /\ m.id \in landed[KeyOfNotification(m.what)]
  /\ inbox[last.tab] > 0
\* what tab t would hold after loading the store as it is now
Reloaded(t) ==
  IF t \in Editors
  THEN [players |-> loadPlayers(store).ret, tierMapping |-> loadMapping(store).ret]
  ELSE [players |-> viewLoadPlayers(store), tierMapping |-> viewLoadMapping(store)]

\* no handler is running and every notification has been handled
Quiescent == \A t \in Tabs : cont[t] = Idle /\ inbox[t] = 0

\* C2: whatever the interleaving of the saves of the open tabs, once every
\* notification has been delivered and handled, the players and the mapping
\* each open tab holds in memory are what loading the store yields.
C2_NoStaleView ==
  Quiescent =>
    \A t \in Tabs : open[t] =>
      players[t] = Reloaded(t).players /\ tierMapping[t] = Reloaded(t).tierMapping
\* C3: the reload is idempotent: when a tab handles a notification directly
\* after having handled one, whatever the channel and whether or not a save
\* caused it, its players, its mapping and the store stay as the first
\* reload left them.
C3_ReloadIdempotent ==
  [][last'.op = "reloadAgain" =>
       /\ players'[last'.tab] = players[last'.tab]
       /\ tierMapping'[last'.tab] = tierMapping[last'.tab]
       /\ store' = store]_vars

\* the editor has reloaded twice in a row after its players item was
\* garbled and reseeded
C3_Witness ==
  /\ last.op = "reloadAgain" /\ last.tab = "e1"
  /\ store[STORAGE_KEY] = JSONstringify(Arr(initialData))
  /\ landed[STORAGE_KEY] = {}
\* the step just taken is a page load or a reload of tab last.tab
IsLoad(l) == l.op \in {"open", "reload", "reloadAgain"}

\* the players item is absent or empty, is not JSON, or is JSON but no array
BadPlayers(st) ==
  \/ NoRaw(st[STORAGE_KEY])
  \/ ParseThrows(st[STORAGE_KEY])
  \/ JSONparse(st[STORAGE_KEY]).t # "arr"

BadMapping(st) ==
  \/ NoRaw(st[MAPPING_KEY])
  \/ ParseThrows(st[MAPPING_KEY])
  \/ JSONparse(st[MAPPING_KEY]).t # "obj"

\* C5: whenever the editor loads over a mapping item that is absent or is
\* no tier-to-points object, it gets exactly the default mapping and the
\* store holds the default mapping afterwards.
C5_BadMappingReseeded ==
  [][(IsLoad(last') /\ last'.tab \in Editors /\ BadMapping(store)) =>
       /\ tierMapping'[last'.tab] = mappingDefault
       /\ store'[MAPPING_KEY] = JSONstringify(mappingDefault)]_vars

\* C6: whenever the editor loads over a mapping item that is an object, the
\* mapping it gets has the 10 canonical labels, every key of the stored
\* object with the stored value, and every canonical label the stored
\* object lacks with its default value.
C6_DefaultsUnderStored ==
  [][(IsLoad(last') /\ last'.tab \in Editors /\ ~BadMapping(store)) =>
       LET stored == JSONparse(store[MAPPING_KEY]).v
           got == tierMapping'[last'.tab].v
       IN /\ CanonicalTiers \subseteq DOMAIN got
          /\ \A k \in DOMAIN stored : got[k] = stored[k]
          /\ \A k \in CanonicalTiers \ DOMAIN stored : got[k] = mappingDefault.v[k]]_vars

\* the editor has loaded the stored object { LT5: 15, ZZ: 1 }
C6_Witness ==
  /\ IsLoad(last) /\ last.tab = "e1"
  /\ store[MAPPING_KEY] = JSONText(Obj([LT5 |-> Num(15), ZZ |-> Num(1)]))
  /\ Get(tierMapping["e1"], "LT5") = Num(15)
  /\ Get(tierMapping["e1"], "ZZ") = Num(1)
  /\ Get(tierMapping["e1"], "HT1") = Num(100)

\* a player record as the store is to hold it: an object whose rank is a
\* number, whose name and tier are texts and whose points is a number
IsRecord(x) ==
  /\ x.t = "obj"
  /\ {"rank", "name", "tier", "points"} \subseteq DOMAIN x.v
  /\ x.v["rank"].t = "num" /\ x.v["name"].t = "str"
  /\ x.v["tier"].t = "str" /\ x.v["points"].t = "num"

\* C7: starting from an empty store, whatever is added, edited, imported,
\* deleted, cleared or re-pointed, every element of the list persisted
\* under the players key is a record with a numeric rank, a text name, a
\* text tier and a numeric points.
C7_PersistedRecordsTyped ==
  (store[STORAGE_KEY].kind = "json" /\ JSONparse(store[STORAGE_KEY]).t = "arr") =>
    \A i \in 1..Len(JSONparse(store[STORAGE_KEY]).v) :
      IsRecord(JSONparse(store[STORAGE_KEY]).v[i])

\* C8: when the form is submitted in edit mode, whatever happened between
\* the click on Edit and the submit, the record at the remembered index is
\* the record Edit was clicked on, and the submit adds no record.
C8_SubmitReplacesSelected ==
  [][\A t \in Editors :
       (last'.op = "submitEdit" /\ last'.tab = t) =>
         /\ editingId[t].v < Len(players[t])
         /\ players[t][editingId[t].v + 1] = selected[t]
         /\ Len(players'[t]) = Len(players[t])]_vars

\* the table of tab t shows the current list under the current search
\* text, tier filter and sort state
Fresh(t) ==
  /\ ~HasNull(players[t])
  /\ rows[t] = applyFiltersAndRender(players[t], searchInput[t], tierFilter[t], sortState[t])

\* C9: whatever the search text, the tier filter and the sort state, a
\* confirmed click on Delete in the i-th displayed row removes from the
\* list exactly the record that row displays, keeps the others in order,
\* writes the result to the store and goes on to notify.
C9_DeleteRemovesShownRow ==
  [][\A i \in 1..Len(rows["e1"]) :
       (Fresh("e1") /\ DeleteClick("e1", i, TRUE) /\ last'.op = "delete") =>
         /\ players'["e1"] =
              Splice(players["e1"],
                     VisiblePositions(players["e1"], searchInput["e1"], tierFilter["e1"],
                                      sortState["e1"])[i] - 1)
         /\ store'[STORAGE_KEY] = JSONstringify(Arr(players'["e1"]))
         /\ cont'["e1"].calls = Tail(savePlayers)]_vars

\* C10: a destructive action whose confirmation is declined (delete, clear
\* all, apply the mapping to all) changes neither the list, the mapping nor
\* the store and emits no notification: the step that declines changes and
\* emits nothing, and the handler of Apply-to-all has changed nothing
\* before it asks.
C10_DeclineChangesNothing ==
  [][/\ last'.op \in {"deleteDeclined", "clearDeclined", "applyAllDeclined"} =>
          /\ UNCHANGED <<players, tierMapping, store>>
          /\ last'.emitted = {}
     /\ \A t \in Editors :
          (cont[t] = Idle /\ cont'[t] # Idle /\ cont'[t].then = "applyAll") =>
            UNCHANGED <<players, tierMapping, store>>]_vars

\* C11: an import that fails (the text is no JSON, the JSON is no array,
\* or an element of the array cannot be normalized) leaves the list in
\* memory and the persisted list as they were and emits no notification.
C11_FailedImportAborts ==
  [][\A file \in BadFiles :
       Import("e1", file) =>
         /\ UNCHANGED <<players, store, inbox>>
         /\ last'.emitted = {}]_vars

\* an import has failed while the editor shows a list
C11_Witness ==
  /\ last.op = "importFailed" /\ last.tab = "e1"
  /\ Len(players["e1"]) > 0
  /\ store[STORAGE_KEY] = JSONstringify(Arr(players["e1"]))

\* C12: a submit of the form whose name is empty or blank saves nothing:
\* the list, the store and the edit session are unchanged and nothing is
\* emitted, in add mode and in edit mode.
C12_BlankNameSavesNothing ==
  [][\A inp \in FormInputs :
       (Trim(inp.name) = "" /\ Submit("e1", inp)) =>
         /\ UNCHANGED <<players, store, inbox, editingId, selected>>
         /\ last'.emitted = {}]_vars

\* a blank name has been rejected while a record was being edited
C12_Witness ==
  /\ last.op = "submitRejected" /\ last.tab = "e1"
  /\ editingId["e1"] # Null

C14_PointsNonNegative ==
  (last.op = "import" /\ last.tab = "e1") =>
    \A i \in 1..Len(players["e1"]) :
      /\ Get(players["e1"][i], "points").t = "num"
      /\ Get(players["e1"][i], "points").v >= 0

\* the input has a points field that is not empty and that Number() reads
\* as a number
NumericPoints(p) == ~(p.t \in {"undef", "null"}) /\ p # Str("") /\ ToNumber(p).t # "nan"

\* the points the rule of C15 gives the record out made from the item x
RulePoints(x, out, tm) ==
  IF NumericPoints(Get(x, "points")) THEN ToNumber(Get(x, "points"))
  ELSE IF Get(out, "tier").v \in DOMAIN tm.v THEN tm.v[Get(out, "tier").v]
  ELSE Num(0)

\* C15: the points of an imported item is the number its points field
\* holds when that is not empty and numeric, and otherwise the mapping's
\* value for the record's trimmed tier, 0 when the mapping has none; the
\* record the form adds has the points an import of the same texts gives.
C15_PointsRule ==
  [][/\ \A x \in ProbeItems :
          (last'.op = "import" /\ Import("e1", JsonFile(<<x>>))) =>
            /\ Len(players'["e1"]) = 1
            /\ Get(players'["e1"][1], "points") =
                 RulePoints(x, players'["e1"][1], tierMapping["e1"])
     /\ \A inp \in ProbeForms :
          (last'.op = "add" /\ Submit("e1", inp)) =>
            players'["e1"] =
              ArraySort([by |-> "rankdiff"],
                Append(players["e1"],
                  WithPoints(normalizePlayer(formRaw(inp, tierMapping["e1"]), tierMapping["e1"]),
                    Get(normalizePlayer(formItem(inp), tierMapping["e1"]), "points"))))]_vars

\* after an import of an item whose points is the text "abc" the form was
\* submitted with empty points: both records have the mapping's points
C15_Witness ==
  /\ last.op = "add" /\ last.tab = "e1"
  /\ players["e1"] = <<Player(Num(2), Str("Al"), Str("LT5"), Num(10)),
                       Player(Num(2), Str("Al"), Str("LT5"), Num(10))>>

\* C16: round trip: whatever list the editor holds, importing the file
\* the Export button produces for it succeeds and leaves the list as it
\* was, field by field and in the same order.
C16_ExportImportRoundTrip ==
  [][ImportExported("e1") =>
       /\ last'.op = "import"
       /\ players'["e1"] = players["e1"]]_vars

\* C17: splitCSVLine splits at the commas outside double-quoted sections,
\* drops the enclosing quotes and reads a doubled quote inside a quoted
\* section as one quote: a row whose name is written in double quotes with
\* its quotes doubled, or plainly, imports as the record with that name,
\* and the quotes of ab"c,d"e enclose the comma between them.
C17_QuotedFieldsSplit ==
  [][/\ \A name \in NameFields :
          Import("e1", QuotedCsv(name)) =>
            players'["e1"] =
              <<normalizePlayer(Obj([rank |-> Str("1"), name |-> Str(name),
                                     tier |-> Str("HT1"), points |-> Str("100")]),
                                tierMapping["e1"])>>
     /\ \A name \in {" x ", "a"} :
          Import("e1", PlainCsv(name)) =>
            players'["e1"] = <<Player(Num(1), Str(name), Str("HT1"), Num(100))>>
     /\ Import("e1", [ext |-> "csv", raw |-> "rank,name,tier,points\n1,ab\"c,d\"e,HT1,100"]) =>
          players'["e1"] = <<Player(Num(1), Str("abc,de"), Str("HT1"), Num(100))>>]_vars

\* the row 1,"Smith, ""The Rock""",HT1,100 has been imported
C17_Witness ==
  /\ last.op = "import" /\ last.tab = "e1"
  /\ players["e1"] = <<Player(Num(1), Str("Smith, \"The Rock\""), Str("HT1"), Num(100))>>

\* the first non-empty value among the name, player and username columns
\* of the CSV row r, "Unknown" when there is none
FirstName(r) ==
  IF Truthy(Get(r, "name")) THEN Get(r, "name")
  ELSE IF Truthy(Get(r, "player")) THEN Get(r, "player")
  ELSE IF Truthy(Get(r, "username")) THEN Get(r, "username")
  ELSE Str("Unknown")

\* C18: in a CSV import the name of every record is the first non-empty
\* value among the name, player and username columns of its row, and is
\* "Unknown" only when all of them are absent or empty.
C18_CsvNameTolerance ==
  [][\A file \in CsvFiles :
       Import("e1", file) =>
         /\ Len(players'["e1"]) = Len(parseCSV(file.raw))
         /\ \A i \in 1..Len(parseCSV(file.raw)) :
              Get(players'["e1"][i], "name") = FirstName(parseCSV(file.raw)[i])]_vars

\* the points the mapping tm gives the record p: its value for the tier of
\* p, 0 when it has none
MappedPoints(p, tm) ==
  IF Get(p, "tier").t = "str" /\ Get(p, "tier").v \in DOMAIN tm.v
  THEN tm.v[Get(p, "tier").v] ELSE Num(0)

\* out is the record p with its points set to v and nothing else changed
SamePlayerWithPoints(out, p, v) ==
  /\ out.t = "obj"
  /\ DOMAIN out.v = DOMAIN p.v \cup {"points"}
  /\ out.v["points"] = v
  /\ \A k \in DOMAIN p.v \ {"points"} : out.v[k] = p.v[k]

\* the points of the record p are zero or missing
NoPoints(p) == Get(p, "points") \in {Num(0), Null, Undef}

\* the handler of tab t has saved the mapping and goes on to apply it
Applying(t, button) == cont[t] # Idle /\ cont[t].then = button

\* C19: a confirmed Apply-to-all gives every record the mapping's points
\* for its tier and changes no other field and not the order; Apply-to-
\* empty does so for exactly the records whose points are zero or missing
\* and leaves the others as they are; both write the result to the store.
C19_ApplyMapping ==
  [][/\ (Applying("e1", "applyAll") /\ Continue("e1", TRUE)) =>
          /\ Len(players'["e1"]) = Len(players["e1"])
          /\ store'[STORAGE_KEY] = JSONstringify(Arr(players'["e1"]))
          /\ \A i \in 1..Len(players["e1"]) :
               players["e1"][i].t = "obj" =>
                 SamePlayerWithPoints(players'["e1"][i], players["e1"][i],
                                      MappedPoints(players["e1"][i], tierMapping["e1"]))
     /\ (Applying("e1", "applyEmpty") /\ Continue("e1", TRUE)) =>
          /\ Len(players'["e1"]) = Len(players["e1"])
          /\ store'[STORAGE_KEY] = JSONstringify(Arr(players'["e1"]))
          /\ \A i \in 1..Len(players["e1"]) :
               players["e1"][i].t = "obj" =>
                 IF NoPoints(players["e1"][i])
                 THEN SamePlayerWithPoints(players'["e1"][i], players["e1"][i],
                                           MappedPoints(players["e1"][i], tierMapping["e1"]))
                 ELSE players'["e1"][i] = players["e1"][i]]_vars

\* C20: in the editor and in the viewer the sort state is (rank,
\* ascending) when the page has loaded; a click on a sortable header makes
\* it (same field, opposite direction) when the field is the active one and
\* (clicked field, ascending) otherwise; no other step changes it.
C20_SortState ==
  [][\A t \in {"e1", "v1"} :
       /\ (last'.op = "open" /\ last'.tab = t) =>
            sortState'[t] = [field |-> "rank", dir |-> "asc"]
       /\ \A f \in SortFields :
            SortClick(t, f) =>
              sortState'[t] =
                IF sortState[t].field = f
                THEN [field |-> f, dir |-> IF sortState[t].dir = "asc" THEN "desc" ELSE "asc"]
                ELSE [field |-> f, dir |-> "asc"]
       /\ ~(last'.op = "sort" /\ last'.tab = t) => sortState'[t] = sortState[t]]_vars

\* the viewer, sorted by points descending, has handled a notification of
\* the editor's save
C20_Witness ==
  /\ last.op = "reload" /\ last.tab = "v1"
  /\ sortState["v1"] = [field |-> "points", dir |-> "desc"]
  /\ landed[STORAGE_KEY] # {}

\* the list in the opposite order
Reverse(seq) == [i \in 1..Len(seq) |-> seq[Len(seq) + 1 - i]]

\* the points of the three records of list are pairwise different
DistinctPoints(list) ==
  \A i \in 1..Len(list), j \in 1..Len(list) :
    i # j => Get(list[i], "points") # Get(list[j], "points")

\* a click on the points header of tab t that turns the direction round
\* while the tab shows a list of three records
PointsTurned(t) ==
  /\ SortClick(t, "points")
  /\ sortState[t].field = "points"
  /\ Len(players[t]) = 3

\* C21: for every list of three player records, the order displayed when
\* sorting by points ascending is exactly the reverse of the order
\* displayed when sorting by points descending.
C21_AscendingReversesDescending ==
  [][\A t \in {"e1", "v1"} : PointsTurned(t) => rows'[t] = Reverse(rows[t])]_vars

\* C21 as amended: the two orders are reverses of each other when the
\* points of the three records are pairwise different; two records with
\* equal points are displayed in their list order in both directions.
C21_ReversedUnlessTied ==
  [][\A t \in {"e1", "v1"} :
       PointsTurned(t) =>
         /\ DistinctPoints(players[t]) => rows'[t] = Reverse(rows[t])
         /\ \A i \in 1..3, j \in 1..3 :
              (i < j /\ Get(players[t][i], "points") = Get(players[t][j], "points")) =>
                \E m \in 1..3, n \in 1..3 :
                  /\ m < n
                  /\ rows'[t][m] = RowOf(players[t][i])
                  /\ rows'[t][n] = RowOf(players[t][j])]_vars

\* the viewer shows three records of pairwise different points by points
\* descending, the list not being in that order
C21_Witness ==
  /\ last.op = "sort" /\ last.tab = "v1"
  /\ sortState["v1"] = [field |-> "points", dir |-> "desc"]
  /\ Len(players["v1"]) = 3 /\ DistinctPoints(players["v1"])
  /\ rows["v1"] # renderTable(players["v1"])
  /\ rows["v1"] # Reverse(renderTable(players["v1"]))

\* C22: the editor and the viewer render the same data: whatever the two
\* store keys hold (absent, corrupt, a partial mapping, valid), the players
\* and the tier mapping a load of the viewer yields are the players and the
\* tier mapping the editor's loadPlayers and loadMapping return for that
\* same store content.
C22_ViewerLoadsWhatEditorLoads ==
  [][(IsLoad(last') /\ last'.tab \in Viewers) =>
       /\ players'[last'.tab] = loadPlayers(store).ret
       /\ tierMapping'[last'.tab] = loadMapping(store).ret]_vars

\* the step recorded in l is the viewer handling one of its events: the
\* page load, a notification, the search box, the tier select, a sortable
\* header or the export button
ViewerEvent(l) ==
  /\ l.tab \in Viewers
  /\ l.op \in {"open", "reload", "reloadAgain", "search", "filter", "sort", "export"}

\* C23: the viewer is read-only: no event it handles (page load, search,
\* filter, sort click, export, a notification on any channel) writes or
\* removes a store key, emits a broadcast message or a same-page signal, or
\* puts a notification into any tab's queue.
C23_ViewerReadOnly ==
  [][ViewerEvent(last') =>
       /\ store' = store
       /\ last'.emitted = {}
       /\ landed' = landed
       /\ \A u \in Tabs : inbox'[u] <= inbox[u]]_vars

\* the viewer has handled a notification while neither store key held
\* usable JSON, and shows nothing
C23_Witness ==
  /\ last.op = "reload" /\ last.tab = "v1"
  /\ store[STORAGE_KEY] = CorruptText /\ store[MAPPING_KEY] = CorruptText
  /\ players["v1"] = <<>>

\* C24: a tab that handles a notification emits no broadcast message and
\* no same-page signal, and changes a store key only from a value that is
\* absent or unusable to the seed value; and so, the saves and the writes
\* from outside being finitely many, the tabs come to rest: from some point
\* on no notification is pending and no handler is running.
C24_HandlingQuiesces ==
  /\ [][last'.op \in {"reload", "reloadAgain"} =>
          /\ \A m \in last'.emitted : m.chan = "storage"
          /\ store'[STORAGE_KEY] # store[STORAGE_KEY] =>
               BadPlayers(store) /\ store'[STORAGE_KEY] = JSONstringify(Arr(initialData))
          /\ store'[MAPPING_KEY] # store[MAPPING_KEY] =>
               BadMapping(store) /\ store'[MAPPING_KEY] = JSONstringify(mappingDefault)]_vars
  /\ <>[]Quiescent

\* the three tabs are at rest after an editor, handling the notification
\* of a garbled item, has removed and reseeded it, which notified the other
\* two tabs
C24_Witness ==
  /\ Quiescent /\ saveSeq = 1
  /\ last.op = "reloadAgain"
  /\ store = Seeded
  /\ \A t \in Tabs : players[t] = initialData

\* C25: whatever the outcome of the status request (it fails, the response
\* is not OK, or a status object with any subset of its fields arrives),
\* updateServerCard ends without an uncaught error and the connect link
\* names the configured server; after a failure the name, status and
\* players fields hold "Unable to fetch status", "Unknown" and the dash.
C25_CardCompletes ==
  card.pc \in {"done", "threw"} =>
    /\ card.pc = "done"
    /\ card.hasLink => card.linkText = connectText /\ card.linkHref = connectHref
    /\ ~Truthy(card.data) =>
         /\ card.name = "Unable to fetch status"
         /\ card.online = "Unknown"
         /\ card.players = EmDash
====
